---- MODULE Spec2Model ----
(***************************************************************************)
(* Model of oapi-gen: the schema registry builder, the per-operation       *)
(* handler synthesizer (generateCode and its helpers in main.go) and the   *)
(* request handlers it synthesizes.                                        *)
(*                                                                         *)
(* Go strings on which the code does character work (names, operation      *)
(* ids, paths, status codes, $ref values) are sequences of one-character   *)
(* strings.  Strings the code only compares or prints (schema types, Go    *)
(* type names, file names, response texts) are TLA+ strings.               *)
(***************************************************************************)
EXTENDS Integers, Sequences, FiniteSets, Bags, TLC

VARIABLES
    \* --- identifier normalizer runs (toGoIdentifier applied repeatedly)
    name,          \* the string handed to the first call
    ident,         \* result of the latest call
    prevIdent,     \* result of the call before it
    calls,         \* number of calls made
    \* --- one run of generateCode
    doc,           \* the parsed OpenAPISpec: [components, paths]
    pc,            \* position inside generateCode
    schemas,       \* local `schemas` of generateCode: [isNil, m]
    inlineSchemas, \* local `inlineSchemas` of generateCode
    structCode,    \* local `structCode`: the declarations of models.go
    serverCode,    \* local `serverCode`: the registrations of server.go
    handlerCode,   \* local `handlerCode`: the handlers of handlers.go
    dbInitCode,    \* local `dbInitCode`: the prefixes of db_init.go
    files,         \* names of the files written to the output directory
    outcome,       \* how generateCode ended: "running", "ok", "error", "panic"
    \* --- the synthesized server answering requests
    store,         \* BadgerDB: key -> stored value
    response,      \* the answer to the latest request
    posted,        \* history: key -> body submitted by the POST that wrote it
    clock,         \* time.Now().UnixNano() as last read
    requests,      \* the POST requests served concurrently, in order of arrival
    \* --- the interactive UI
    ui,            \* the Bubble Tea model: the fields of `model`
    cmd,           \* the command returned by the latest Update
    pending        \* commands in flight: their messages are not delivered yet

vars == <<name, ident, prevIdent, calls, doc, pc, schemas, inlineSchemas,
          structCode, serverCode, handlerCode, dbInitCode, files, outcome,
          store, response, posted, clock, requests, ui, cmd, pending>>

normVars == <<name, ident, prevIdent, calls>>
genVars == <<doc, pc, schemas, inlineSchemas, structCode, serverCode,
            handlerCode, dbInitCode, files, outcome>>
runVars == <<store, response, posted, clock, requests>>
uiVars == <<ui, cmd, pending>>

-----------------------------------------------------------------------------
(* Bounds *)

MaxLen == 4      \* longest string handed to toGoIdentifier
MaxCalls == 2    \* repeated applications of toGoIdentifier
MaxOps == 2      \* operations ((path, method) pairs) in a document
MaxClock == 2    \* largest time read by a POST handler
MaxPosts == 3    \* most POST requests served concurrently
MaxInput == 1    \* longest text typed into an input field of the UI
MaxPending == 1  \* most commands of the UI in flight at once

-----------------------------------------------------------------------------
(* Strings *)

LowerChars == <<"a","b","c","d","e","f","g","h","i","j","k","l","m",
                "n","o","p","q","r","s","t","u","v","w","x","y","z">>
UpperChars == <<"A","B","C","D","E","F","G","H","I","J","K","L","M",
                "N","O","P","Q","R","S","T","U","V","W","X","Y","Z">>

\* strings.ToUpper on one character
ToUpperChar(c) ==
    IF \E i \in 1..Len(LowerChars) : LowerChars[i] = c
    THEN UpperChars[CHOOSE i \in 1..Len(LowerChars) : LowerChars[i] = c]
    ELSE c

\* strings.ToUpper
ToUpper(s) == [i \in 1..Len(s) |-> ToUpperChar(s[i])]

\* strings.ReplaceAll(s, old, new) for a one-character old
RECURSIVE ReplaceAll(_, _, _)
ReplaceAll(s, old, new) ==
    IF s = <<>> THEN <<>>
    ELSE IF Head(s) = old THEN new \o ReplaceAll(Tail(s), old, new)
    ELSE <<Head(s)>> \o ReplaceAll(Tail(s), old, new)

\* strings.Trim(s, cutset) for a one-character cutset
RECURSIVE TrimLeft(_, _)
TrimLeft(s, c) ==
    IF s # <<>> /\ Head(s) = c THEN TrimLeft(Tail(s), c) ELSE s

RECURSIVE TrimRight(_, _)
TrimRight(s, c) ==
    IF s # <<>> /\ s[Len(s)] = c THEN TrimRight(SubSeq(s, 1, Len(s) - 1), c) ELSE s

Trim(s, c) == TrimRight(TrimLeft(s, c), c)

\* strings.Split(s, sep) for a one-character sep: always at least one part
RECURSIVE Split(_, _)
Split(s, sep) ==
    IF \E i \in 1..Len(s) : s[i] = sep
    THEN LET i == CHOOSE j \in 1..Len(s) :
                     s[j] = sep /\ \A k \in 1..(j - 1) : s[k] # sep
         IN  <<SubSeq(s, 1, i - 1)>> \o Split(SubSeq(s, i + 1, Len(s)), sep)
    ELSE <<s>>

\* The elements of a sequence
Range(f) == {f[i] : i \in DOMAIN f}

\* strings.TrimPrefix
TrimPrefix(s, prefix) ==
    IF Len(s) >= Len(prefix) /\ SubSeq(s, 1, Len(prefix)) = prefix
    THEN SubSeq(s, Len(prefix) + 1, Len(s))
    ELSE s

-----------------------------------------------------------------------------
(* Identifier normalizer and type mapper *)

\* A plausible slip: capitalize first, strip '-' and ' ' afterwards.
toGoIdentifierUpperFirst(n) ==
    LET up == IF Len(n) > 0 THEN <<ToUpperChar(n[1])>> \o Tail(n) ELSE n
    IN  ReplaceAll(ReplaceAll(up, "-", <<>>), " ", <<>>)

\* toGoIdentifier: strip '-' and ' ', split into characters, upper-case the
\* first one, join.
toGoIdentifier(n) ==
    LET stripped == ReplaceAll(ReplaceAll(n, "-", <<>>), " ", <<>>)
        parts == stripped      \* strings.Split(name, ""): one part per character
    IN  IF Len(parts) > 0
        THEN <<ToUpperChar(parts[1])>> \o Tail(parts)
        ELSE parts

\* A table that maps number to int
mapTypeToGoNumberInt(openAPIType) ==
    CASE openAPIType = "string"  -> "string"
      [] openAPIType = "integer" -> "int"
      [] openAPIType = "number"  -> "int"
      [] openAPIType = "boolean" -> "bool"
      [] openAPIType = "array"   -> "[]interface{}"
      [] openAPIType = "object"  -> "map[string]interface{}"
      [] OTHER                   -> "interface{}"

\* mapTypeToGo
mapTypeToGo(openAPIType) ==
    CASE openAPIType = "string"  -> "string"
      [] openAPIType = "integer" -> "int"
      [] openAPIType = "number"  -> "float64"
      [] openAPIType = "boolean" -> "bool"
      [] openAPIType = "array"   -> "[]interface{}"
      [] openAPIType = "object"  -> "map[string]interface{}"
      [] OTHER                   -> "interface{}"

\* deriveEntityName: strings.Split never returns an empty slice, so the
\* "Entity" fallback is dead code.
deriveEntityName(path) ==
    LET parts == Split(Trim(path, "/"), "/")
    IN  IF Len(parts) > 0 THEN toGoIdentifier(parts[1]) ELSE <<"E","n","t","i","t","y">>

-----------------------------------------------------------------------------
(* The parsed document *)

\* Character strings used by the documents of the model
sName == <<"n","a","m","e">>
sAge == <<"a","g","e">>
sId == <<"i","d">>
sUser == <<"U","s","e","r">>
sDash == <<"-">>
sOp == <<"o","p">>
sOpRequest == <<"O","p","R","e","q","u","e","s","t">>
s200 == <<"2","0","0">>
s404 == <<"4","0","4">>
pUsers == <<"/","u","s","e","r","s">>
pAdashB == <<"/","a","-","b">>
pAB == <<"/","a","b">>
mGet == <<"g","e","t">>
mPost == <<"p","o","s","t">>
mPut == <<"p","u","t">>
mDelete == <<"d","e","l","e","t","e">>
mPatch == <<"p","a","t","c","h">>

\* "#/components/schemas/"
RefPrefix == <<"#","/","c","o","m","p","o","n","e","n","t","s","/",
               "s","c","h","e","m","a","s","/">>

\* A raw JSON schema object.  typeOK is FALSE when its "type" is not a JSON
\* string (e.g. a number or an array), which json.Unmarshal cannot store in
\* Schema.Type.
RawSchema(t, ps, ok) == [type |-> t, props |-> ps, typeOK |-> ok]

\* type Schema struct (Type, Properties).  Items and Ref are decoded but read
\* nowhere in the code.
Schema(t, ps) == [type |-> t, props |-> ps]

\* json.Marshal(raw) then json.Unmarshal(.., &schema): a field that cannot be
\* stored keeps its zero value and the call reports an error.
DecodeSchema(raw) ==
    [err |-> ~raw.typeOK,
     schema |-> Schema(IF raw.typeOK THEN raw.type ELSE "", raw.props)]

rawNameAge == RawSchema("object", (sName :> "string") @@ (sAge :> "integer"), TRUE)
rawName == RawSchema("object", (sName :> "string"), TRUE)
rawId == RawSchema("object", (sId :> "string"), TRUE)
rawArray == RawSchema("array", (sName :> "string"), TRUE)
rawBadType == RawSchema("object", (sName :> "string"), FALSE)

\* A request-body or response slot of an operation.  depth counts how many of
\* the nested type assertions succeed:
\*   0  the slot itself is absent or not a mapping
\*   1  ... but its "content" is absent or not a mapping
\*   2  ... but content["application/json"] is absent or not a mapping
\*   3  ... but its "schema" is absent or not a mapping
\*   4  the schema is a mapping
\* refKey says whether the schema mapping has a "$ref" key and whether its
\* value is a string; ref is that string.
Slot(d, rk, r, raw) == [depth |-> d, refKey |-> rk, ref |-> r, raw |-> raw]

rawNone == RawSchema("", <<>>, TRUE)
SlotAbsent == Slot(0, "absent", <<>>, rawNone)
SlotNoContent == Slot(1, "absent", <<>>, rawNone)
SlotNoJSON == Slot(2, "absent", <<>>, rawNone)
SlotNoSchema == Slot(3, "absent", <<>>, rawNone)
SlotInline(raw) == Slot(4, "absent", <<>>, raw)
SlotRef(n) == Slot(4, "string", RefPrefix \o n, rawNone)
SlotRefNotString == Slot(4, "other", <<>>, rawNone)

\* One operation of the paths tree
Endpoint(opId, req, resps) ==
    [operationId |-> opId, requestBody |-> req, responses |-> resps]

NoResponses == <<>>

\* An operation whose value is not a mapping: the failed type assertion
\* leaves the nil map, on which every key reads as absent
EndpointNotMap == Endpoint(<<>>, SlotAbsent, NoResponses)

\* A path whose value is not a mapping: the failed type assertion leaves the
\* nil map, which has no methods to range over
MethodsNotMap == <<>>

\* components: schemas is "absent" (no "schemas" key), "other" (the key holds
\* something that is not a mapping, e.g. a string) or "map" (m: name -> raw)
Components(kind, m) == [schemas |-> kind, m |-> m]

Document(c, ps) == [components |-> c, paths |-> ps]

-----------------------------------------------------------------------------
(* Schema registry builder *)

\* A Go map[string]Schema value
GoMap(m) == [isNil |-> FALSE, m |-> m]
NilMap == [isNil |-> TRUE, m |-> <<>>]

\* schemas[k] = v
Put(m, k, v) == (k :> v) @@ m

\* An extractSchemas that skips an entry it cannot decode
extractSchemasSkipBad(components) ==
    CASE components.schemas = "absent" ->
            [schemas |-> GoMap(<<>>), err |-> FALSE]
      [] components.schemas = "other" ->
            [schemas |-> NilMap, err |-> TRUE]
      [] OTHER ->
            [schemas |-> GoMap([n \in {x \in DOMAIN components.m :
                                          ~DecodeSchema(components.m[x]).err} |->
                                   DecodeSchema(components.m[n]).schema]),
             err |-> FALSE]

\* extractSchemas: (map, error)
extractSchemas(components) ==
    CASE components.schemas = "absent" ->
            [schemas |-> GoMap(<<>>), err |-> FALSE]
      [] components.schemas = "other" ->
            [schemas |-> NilMap, err |-> TRUE]
      [] OTHER ->
            IF \E n \in DOMAIN components.m : DecodeSchema(components.m[n]).err
            THEN [schemas |-> NilMap, err |-> TRUE]
            ELSE [schemas |-> GoMap([n \in DOMAIN components.m |->
                                        DecodeSchema(components.m[n]).schema]),
                  err |-> FALSE]

\* The operationId of an operation, derived from method and path when absent
operationIDOf(path, method, endpoint) ==
    IF endpoint.operationId = <<>>
    THEN ToUpper(method) \o ReplaceAll(path, "/", <<>>)
    ELSE endpoint.operationId

\* A handler name taken from the operation id as it is
handlerNameRaw(path, method, endpoint) == operationIDOf(path, method, endpoint)

\* toGoIdentifier(strings.ReplaceAll(operationID, " ", ""))
handlerNameOf(path, method, endpoint) ==
    toGoIdentifier(ReplaceAll(operationIDOf(path, method, endpoint), " ", <<>>))

sRequest == <<"R","e","q","u","e","s","t">>
sResponse == <<"R","e","s","p","o","n","s","e">>

\* A test that stops one assertion early: a slot whose "schema" is missing or
\* not a mapping counts as an inline schema
IsInlineLoose(slot) == slot.depth >= 3 /\ slot.refKey = "absent"

\* The slot holds a schema mapping without a "$ref" key
IsInline(slot) == slot.depth = 4 /\ slot.refKey = "absent"

\* The part of extractInlineSchemas that handles one operation: the request
\* body, then every response status.  Within one operation the names are
\* pairwise distinct (one per status), so the order of the statuses does not
\* show in the result.
inlineOfOperation(acc, path, method, endpoint) ==
    LET base == handlerNameOf(path, method, endpoint)
        req == endpoint.requestBody
        acc1 == IF IsInline(req)
                THEN Put(acc, base \o sRequest, DecodeSchema(req.raw).schema)
                ELSE acc
        sts == {st \in DOMAIN endpoint.responses : IsInline(endpoint.responses[st])}
        nameOf(st) == base \o sResponse \o st
        resp == [n \in {nameOf(st) : st \in sts} |->
                    DecodeSchema(endpoint.responses[
                        CHOOSE st \in sts : nameOf(st) = n].raw).schema]
    IN  resp @@ acc1

\* extractInlineSchemas, visiting the operations in the given order
RECURSIVE inlineFold(_, _, _)
inlineFold(paths, order, acc) ==
    IF order = <<>> THEN acc
    ELSE LET p == Head(order)[1]
             m == Head(order)[2]
         IN  inlineFold(paths, Tail(order),
                        inlineOfOperation(acc, p, m, paths[p][m]))

extractInlineSchemas(paths, order) == inlineFold(paths, order, <<>>)

\* The (path, method) pairs of a paths tree
Operations(paths) ==
    UNION {{<<p, m>> : m \in DOMAIN paths[p]} : p \in DOMAIN paths}

\* The orders in which `for path := range paths { for method := range methods`
\* can visit the operations: any order of the paths, and any order of the
\* methods within each path.
Traversals(paths) ==
    LET ops == Operations(paths)
        n == Cardinality(ops)
    IN  {f \in [1..n -> ops] :
            /\ \A i, j \in 1..n : i # j => f[i] # f[j]
            /\ \A i, j, k \in 1..n :
                   (i < j /\ j < k /\ f[i][1] = f[k][1]) => f[j][1] = f[i][1]}

\* The merge loop of generateCode on a non-nil map: an inline entry is added
\* only under a name the map does not hold yet
merge(named, inline) ==
    [k \in DOMAIN named \cup DOMAIN inline |->
        IF k \in DOMAIN named THEN named[k] ELSE inline[k]]

-----------------------------------------------------------------------------
(* Code synthesizer *)

\* A declaration that renders the properties of a schema of any type
StructDeclAnyType(n, schema) ==
    [name |-> toGoIdentifier(n),
     fields |-> {[field |-> toGoIdentifier(p),
                  type |-> mapTypeToGo(schema.props[p]),
                  tag |-> p] : p \in DOMAIN schema.props}]

\* One struct declaration of models.go.  The fields are written in map
\* iteration order; the model keeps them as a set.
StructDecl(n, schema) ==
    [name |-> toGoIdentifier(n),
     fields |-> IF schema.type = "object"
                THEN {[field |-> toGoIdentifier(p),
                       type |-> mapTypeToGo(schema.props[p]),
                       tag |-> p] : p \in DOMAIN schema.props}
                ELSE {}]

RECURSIVE BagOfImage(_, _)
BagOfImage(S, f) ==
    IF S = {} THEN EmptyBag
    ELSE LET x == CHOOSE y \in S : TRUE
         IN  BagOfImage(S \ {x}, f) (+) SetToBag({f[x]})

\* generateStructs: one declaration per registry entry, in map iteration
\* order; the model keeps the declarations as a bag.
generateStructs(m) ==
    BagOfImage(DOMAIN m, [n \in DOMAIN m |-> StructDecl(n, m[n])])

\* One statement group of a synthesized handler
Stmt(op, arg) == [op |-> op, arg |-> arg]

GET == <<"G","E","T">>
POST == <<"P","O","S","T">>
PUT == <<"P","U","T">>
DELETE == <<"D","E","L","E","T","E">>

\* ref, _ := schemaRef["$ref"].(string) at the end of the chain of type
\* assertions content -> application/json -> schema
refOf(slot) ==
    IF slot.depth = 4 /\ slot.refKey = "string" THEN slot.ref ELSE <<>>

\* responses["200"] as a mapping (an absent status is the nil map)
successRespOf(endpoint) ==
    IF s200 \in DOMAIN endpoint.responses
    THEN endpoint.responses[s200]
    ELSE SlotAbsent

\* The struct name chosen for a slot: the reference's name, else a placeholder
structNameOf(slot, handlerName, suffix) ==
    IF refOf(slot) # <<>>
    THEN toGoIdentifier(TrimPrefix(refOf(slot), RefPrefix))
    ELSE handlerName \o suffix

sResponse200 == sResponse \o s200

\* A handler head that leaves the identifier empty and never answers 400
extractIdStmtsNoCheck == <<>>

\* The id extraction and its 400 check, shared by GET, PUT and DELETE
extractIdStmts == <<Stmt("extractId", <<>>)>>

\* A GET tail that always writes the stored bytes through
getTailRaw(endpoint, handlerName) == <<Stmt("writeRaw", <<>>)>>

\* case "GET": the response part
getTail(endpoint, handlerName) ==
    LET successResp == successRespOf(endpoint)
    IN  IF successResp.depth >= 2
        THEN LET structName == structNameOf(successResp, handlerName, sResponse200)
             IN  IF structName # <<>>
                 THEN <<Stmt("decodeStored", structName), Stmt("encodeJSON", <<>>)>>
                 ELSE <<Stmt("writeRaw", <<>>)>>
        ELSE <<Stmt("writeRaw", <<>>)>>

\* case "POST": the response part
postTail(endpoint, handlerName) ==
    LET successResp == successRespOf(endpoint)
    IN  IF successResp.depth >= 2
        THEN LET respStructName ==
                     structNameOf(successResp, handlerName, sResponse200)
             IN  IF respStructName # <<>>
                 THEN <<Stmt("encodeEmpty", respStructName)>>
                 ELSE <<Stmt("saySaved", <<>>)>>
        ELSE <<Stmt("saySaved", <<>>)>>

\* A default branch that emits nothing (the handler would fall off its end
\* and answer 200)
defaultBranchEmpty == <<>>

\* default: of the method switch
defaultBranch == <<Stmt("unsupported", <<>>)>>

\* The body synthesized after the method guard: the switch on the method
handlerBody(path, method, endpoint) ==
    LET handlerName == handlerNameOf(path, method, endpoint)
        entityName == deriveEntityName(path)
        keyPrefix == entityName \o <<":">>
        M == ToUpper(method)
        req == endpoint.requestBody
        structName == structNameOf(req, handlerName, sRequest)
    IN  CASE M = GET ->
               extractIdStmts
               \o <<Stmt("lookup", keyPrefix)>>
               \o getTail(endpoint, handlerName)
          [] M = POST ->
               IF req.depth >= 1 /\ structName # <<>>
               THEN <<Stmt("decodeBody", structName), Stmt("newId", <<>>),
                      Stmt("marshal", <<>>), Stmt("set", keyPrefix)>>
                    \o postTail(endpoint, handlerName)
               ELSE <<>>
          [] M = PUT ->
               extractIdStmts
               \o (IF req.depth >= 1 /\ structName # <<>>
                   THEN <<Stmt("decodeBody", structName), Stmt("marshal", <<>>),
                          Stmt("set", keyPrefix), Stmt("sayUpdated", <<>>)>>
                   ELSE <<>>)
          [] M = DELETE ->
               extractIdStmts
               \o <<Stmt("delete", keyPrefix), Stmt("sayDeleted", <<>>)>>
          [] OTHER -> defaultBranch

\* One synthesized handler function
handlerOf(path, method, endpoint) ==
    [name |-> handlerNameOf(path, method, endpoint),
     path |-> path,
     entity |-> deriveEntityName(path),
     stmts |-> <<Stmt("methodGuard", ToUpper(method))>>
               \o handlerBody(path, method, endpoint)]

\* generateServerAndHandlers, visiting the operations in the given order:
\* the registration lines of server.go and the handlers of handlers.go
generateServerAndHandlers(paths, order) ==
    [server |-> [i \in 1..Len(order) |->
                    [pattern |-> order[i][1],
                     handler |-> handlerNameOf(order[i][1], order[i][2],
                                               paths[order[i][1]][order[i][2]])]],
     handlers |-> [i \in 1..Len(order) |->
                    handlerOf(order[i][1], order[i][2],
                              paths[order[i][1]][order[i][2]])]]

\* strings.ToLower
ToLowerChar(c) ==
    IF \E i \in 1..Len(UpperChars) : UpperChars[i] = c
    THEN LowerChars[CHOOSE i \in 1..Len(UpperChars) : UpperChars[i] = c]
    ELSE c

ToLower(s) == [i \in 1..Len(s) |-> ToLowerChar(s[i])]

\* generateDBInitCode: the prefixes list, one line per registry entry, kept
\* as a bag
generateDBInitCode(m) ==
    BagOfImage(DOMAIN m, [n \in DOMAIN m |-> ToLower(n) \o <<":">>])

-----------------------------------------------------------------------------
(* The documents of the model *)

Op(p, m, e) == [path |-> p, method |-> m, endpoint |-> e]

\* Operations that differ in how their identity is derived: three paths (one
\* with a '-', one that differs from it only in the '-'), with and without
\* an operationId, each with inline request and response schemas
NamingOps ==
    {Op(p, mPost, Endpoint(id, SlotInline(IF p = pAB THEN rawId ELSE rawNameAge),
                           (s200 :> SlotInline(rawName)))) :
        p \in {pUsers, pAdashB, pAB}, id \in {<<>>, sOp}}
    \cup
    {Op(p, mGet, Endpoint(id, SlotInline(IF p = pAB THEN rawNameAge ELSE rawId),
                          (s200 :> SlotInline(rawNameAge)))) :
        p \in {pUsers, pAdashB, pAB}, id \in {<<>>, sOp}}

\* Operations on /users that differ in the shape of their schema slots
ShapeOps ==
    {Op(pUsers, mGet, Endpoint(<<>>, SlotAbsent, r)) :
        r \in {NoResponses, (s200 :> SlotNoJSON), (s200 :> SlotRef(sUser)),
               (s200 :> SlotRef(sDash)), (s200 :> SlotRefNotString),
               (s404 :> SlotInline(rawName))}}
    \cup
    {Op(pUsers, mPost, Endpoint(<<>>, q, r)) :
        q \in {SlotAbsent, SlotNoContent, SlotRef(sUser), SlotInline(rawArray)},
        r \in {NoResponses, (s200 :> SlotRef(sUser))}}
    \cup
    {Op(pUsers, mPut, Endpoint(<<>>, q, (s200 :> SlotRef(sUser)))) :
        q \in {SlotAbsent, SlotRef(sUser), SlotInline(rawNameAge)}}
    \cup
    {Op(pUsers, m, Endpoint(<<>>, q[1], q[2])) :
        m \in {mDelete, mPatch},
        q \in {<<SlotAbsent, NoResponses>>,
               <<SlotInline(rawNameAge), (s200 :> SlotRef(sUser))>>}}

OpPool == NamingOps \cup ShapeOps

ComponentsPool ==
    {Components("absent", <<>>),
     Components("other", <<>>),
     Components("map", (sUser :> rawNameAge) @@ (sOpRequest :> rawId)),
     Components("map", (sUser :> rawNameAge) @@ (sDash :> rawBadType))}

\* Sets of at most k operations with pairwise distinct (path, method)
RECURSIVE OpSets(_, _)
OpSets(S, k) ==
    IF k = 0 THEN {{}}
    ELSE LET prev == OpSets(S, k - 1)
         IN  prev \cup
             UNION {{O \cup {x} :
                        x \in {y \in S : \A o \in O :
                                   ~(o.path = y.path /\ o.method = y.method)}} :
                    O \in prev}

PathsOf(O) ==
    [p \in {o.path : o \in O} |->
        [m \in {o.method : o \in {x \in O : x.path = p}} |->
            (CHOOSE o \in O : o.path = p /\ o.method = m).endpoint]]

Documents ==
    {Document(c, PathsOf(O)) : c \in ComponentsPool, O \in OpSets(OpPool, MaxOps)}

-----------------------------------------------------------------------------
(* The interactive UI: the Bubble Tea model and its Update *)

\* msg.String() of the key presses the UI is given
keyQ == <<"q">>
keyCtrlC == <<"c", "t", "r", "l", "+", "c">>
keyUp == <<"u", "p">>
keyDown == <<"d", "o", "w", "n">>
keyEnter == <<"e", "n", "t", "e", "r">>
keyBackspace == <<"b", "a", "c", "k", "s", "p", "a", "c", "e">>
keyY == <<"y">>
keyUpperY == <<"Y">>
keyN == <<"n">>
keyUpperN == <<"N">>
keyA == <<"a">>

\* The default output directory put into the input field
defaultOutputDir == <<"g", "e", "n", "e", "r", "a", "t", "e", "d">>

\* The directory cleaned when no output directory is set yet
defaultCleanDir == <<".", ".", "/">> \o defaultOutputDir

\* The empty string of a message field, and fmt.Sprintf(format, dir)
NoText == [format |-> "", dir |-> <<>>]

Sprintf(format, dir) == [format |-> format, dir |-> dir]

\* Messages handed to Update
KeyMsg(key) == [type |-> "KeyMsg", key |-> key]

generationResultMsg(message, err) ==
    [type |-> "generationResultMsg", message |-> message, err |-> err]

cleanupResultMsg(message, err) ==
    [type |-> "cleanupResultMsg", message |-> message, err |-> err]

\* fmt.Sprintf("Error: %v", err)
ErrorText(err) ==
    CASE err = "failed to read file" -> "Error: failed to read file"
      [] err = "error creating output directory" ->
             "Error: error creating output directory"
      [] err = "error generating code" -> "Error: error generating code"
      [] err = "failed to clean up folder" ->
             "Error: failed to clean up folder"

\* The menu entries
choices == <<"Generate Code from OpenAPI Spec", "Clean Up Generated Folder",
             "Exit">>

InitialModel ==
    [state |-> "menu", cursor |-> 0, choices |-> choices,
     selectedChoice |-> "", inputField |-> <<>>, inputSpec |-> <<>>,
     outputDir |-> <<>>, errorMsg |-> "", resultMsg |-> NoText]

\* What Update returns: the model and a command
Return(m, command) == [m |-> m, cmd |-> command]

\* m.inputField[:len(m.inputField)-1] when the field is not empty
Backspace(m) ==
    IF Len(m.inputField) > 0
    THEN [m EXCEPT !.inputField = SubSeq(@, 1, Len(@) - 1)]
    ELSE m

\* case "menu": the cursor is an index from 0 into choices
UpdateMenu(m, msg) ==
    IF msg.type # "KeyMsg" THEN Return(m, "nil")
    ELSE CASE msg.key \in {keyCtrlC, keyQ} -> Return(m, "tea.Quit")
           [] msg.key = keyUp ->
                  Return(IF m.cursor > 0
                         THEN [m EXCEPT !.cursor = @ - 1] ELSE m, "nil")
           [] msg.key = keyDown ->
                  Return(IF m.cursor < Len(m.choices) - 1
                         THEN [m EXCEPT !.cursor = @ + 1] ELSE m, "nil")
           [] msg.key = keyEnter ->
                  LET sel == m.choices[m.cursor + 1]
                      m1 == [m EXCEPT !.selectedChoice = sel]
                  IN  CASE sel = "Exit" -> Return(m1, "tea.Quit")
                        [] sel = "Clean Up Generated Folder" ->
                               Return([m1 EXCEPT !.state = "confirm_cleanup"],
                                      "nil")
                        [] sel = "Generate Code from OpenAPI Spec" ->
                               Return([m1 EXCEPT !.state = "input_spec",
                                                 !.inputField = <<>>], "nil")
                        [] OTHER -> Return(m1, "nil")
           [] OTHER -> Return(m, "nil")

\* case "input_spec"
UpdateInputSpec(m, msg) ==
    IF msg.type # "KeyMsg" THEN Return(m, "nil")
    ELSE CASE msg.key \in {keyCtrlC, keyQ} -> Return(m, "tea.Quit")
           [] msg.key = keyEnter ->
                  IF m.inputField = <<>>
                  THEN Return([m EXCEPT !.errorMsg =
                                   "Input file path cannot be empty"], "nil")
                  ELSE Return([m EXCEPT !.inputSpec = m.inputField,
                                        !.inputField = defaultOutputDir,
                                        !.state = "input_output"], "nil")
           [] msg.key = keyBackspace -> Return(Backspace(m), "nil")
           [] OTHER -> Return([m EXCEPT !.inputField = @ \o msg.key], "nil")

\* case "input_output"
UpdateInputOutput(m, msg) ==
    IF msg.type # "KeyMsg" THEN Return(m, "nil")
    ELSE CASE msg.key \in {keyCtrlC, keyQ} -> Return(m, "tea.Quit")
           [] msg.key = keyEnter ->
                  IF m.inputField = <<>>
                  THEN Return([m EXCEPT !.errorMsg =
                                   "Output directory cannot be empty"], "nil")
                  ELSE Return([m EXCEPT !.outputDir = m.inputField,
                                        !.state = "result"],
                              "generateCodeCmd")
           [] msg.key = keyBackspace -> Return(Backspace(m), "nil")
           [] OTHER -> Return([m EXCEPT !.inputField = @ \o msg.key], "nil")

\* A confirmation screen that also takes Enter for yes
UpdateConfirmCleanupEnterYes(m, msg) ==
    IF msg.type # "KeyMsg" THEN Return(m, "nil")
    ELSE CASE msg.key \in {keyCtrlC, keyQ} -> Return(m, "tea.Quit")
           [] msg.key \in {keyY, keyUpperY, keyEnter} ->
                  Return([m EXCEPT !.state = "result"],
                         "cleanupGeneratedFolderCmd")
           [] msg.key \in {keyN, keyUpperN} ->
                  Return([m EXCEPT !.state = "menu"], "nil")
           [] OTHER -> Return(m, "nil")

\* case "confirm_cleanup"
UpdateConfirmCleanup(m, msg) ==
    IF msg.type # "KeyMsg" THEN Return(m, "nil")
    ELSE CASE msg.key \in {keyCtrlC, keyQ} -> Return(m, "tea.Quit")
           [] msg.key \in {keyY, keyUpperY} ->
                  Return([m EXCEPT !.state = "result"],
                         "cleanupGeneratedFolderCmd")
           [] msg.key \in {keyN, keyUpperN} ->
                  Return([m EXCEPT !.state = "menu"], "nil")
           [] OTHER -> Return(m, "nil")

\* m.resultMsg = msg.message; the error text is set only for an error
TakeResult(m, msg) ==
    LET m1 == [m EXCEPT !.resultMsg = msg.message]
    IN  IF msg.err # "nil"
        THEN [m1 EXCEPT !.errorMsg = ErrorText(msg.err)]
        ELSE m1

\* A result screen on which only Ctrl+C quits
UpdateResultCtrlCOnly(m, msg) ==
    CASE msg.type = "KeyMsg" ->
             CASE msg.key = keyCtrlC -> Return(m, "tea.Quit")
               [] msg.key = keyEnter ->
                      Return([m EXCEPT !.state = "menu", !.errorMsg = "",
                                       !.resultMsg = NoText], "nil")
               [] OTHER -> Return(m, "nil")
      [] msg.type \in {"generationResultMsg", "cleanupResultMsg"} ->
             Return(TakeResult(m, msg), "nil")
      [] OTHER -> Return(m, "nil")

\* case "result"
UpdateResult(m, msg) ==
    CASE msg.type = "KeyMsg" ->
             CASE msg.key \in {keyCtrlC, keyQ} -> Return(m, "tea.Quit")
               [] msg.key = keyEnter ->
                      Return([m EXCEPT !.state = "menu", !.errorMsg = "",
                                       !.resultMsg = NoText], "nil")
               [] OTHER -> Return(m, "nil")
      [] msg.type \in {"generationResultMsg", "cleanupResultMsg"} ->
             Return(TakeResult(m, msg), "nil")
      [] OTHER -> Return(m, "nil")

Update(m, msg) ==
    CASE m.state = "menu" -> UpdateMenu(m, msg)
      [] m.state = "input_spec" -> UpdateInputSpec(m, msg)
      [] m.state = "input_output" -> UpdateInputOutput(m, msg)
      [] m.state = "confirm_cleanup" -> UpdateConfirmCleanup(m, msg)
      [] m.state = "result" -> UpdateResult(m, msg)
      [] OTHER -> Return(m, "nil")

\* The messages the function returned by generateCodeCmd can produce; it
\* holds the model as it was when the command was made
generateCodeCmd(m) ==
    {generationResultMsg(NoText, "failed to read file"),
     generationResultMsg(NoText, "error creating output directory"),
     generationResultMsg(NoText, "error generating code"),
     generationResultMsg(Sprintf("Code generated successfully in %s",
                                 m.outputDir), "nil")}

\* The messages the function returned by cleanupGeneratedFolderCmd can
\* produce
cleanupGeneratedFolderCmd(m) ==
    LET dirToClean == IF m.outputDir = <<>> THEN defaultCleanDir
                      ELSE m.outputDir
    IN  {cleanupResultMsg(Sprintf("Folder %s does not exist", dirToClean),
                          "nil"),
         cleanupResultMsg(NoText, "failed to clean up folder"),
         cleanupResultMsg(Sprintf("Successfully cleaned up folder %s",
                                  dirToClean), "nil")}

\* The messages a command in flight can deliver
Messages(command) ==
    IF command.cmd = "generateCodeCmd" THEN generateCodeCmd(command.m)
    ELSE cleanupGeneratedFolderCmd(command.m)

UiIdle ==
    /\ ui = InitialModel /\ cmd = "nil" /\ pending = <<>>

-----------------------------------------------------------------------------
(* Identifier normalizer runs *)

Alphabet == {"a", "B", "-", " ", "1"}

Strings(n) == UNION {[1..k -> Alphabet] : k \in 0..n}

NormIdle ==
    /\ name = <<>> /\ ident = <<>> /\ prevIdent = <<>> /\ calls = 0

GenIdle ==
    /\ doc = Document(Components("absent", <<>>), <<>>)
    /\ pc = "idle"
    /\ schemas = NilMap
    /\ inlineSchemas = <<>>
    /\ structCode = EmptyBag
    /\ serverCode = <<>>
    /\ handlerCode = <<>>
    /\ dbInitCode = EmptyBag
    /\ files = {}
    /\ outcome = "idle"

RunIdle ==
    /\ store = <<>> /\ response = [status |-> 0] /\ posted = <<>> /\ clock = 0
    /\ requests = <<>>

InitNormalize ==
    /\ name \in Strings(MaxLen)
    /\ ident = <<>> /\ prevIdent = <<>> /\ calls = 0
    /\ GenIdle /\ RunIdle /\ UiIdle

\* One more call of toGoIdentifier: on the input first, then on its own result
Normalize ==
    /\ calls < MaxCalls
    /\ ident' = toGoIdentifier(IF calls = 0 THEN name ELSE ident)
    /\ prevIdent' = ident
    /\ calls' = calls + 1
    /\ UNCHANGED <<name, genVars, runVars, uiVars>>

NextNormalize == Normalize

SpecNormalize == InitNormalize /\ [][NextNormalize]_vars

-----------------------------------------------------------------------------
(* One run of generateCode *)

Init ==
    /\ doc \in Documents
    /\ pc = "extractSchemas"
    /\ schemas = NilMap
    /\ inlineSchemas = <<>>
    /\ structCode = EmptyBag
    /\ serverCode = <<>>
    /\ handlerCode = <<>>
    /\ dbInitCode = EmptyBag
    /\ files = {}
    /\ outcome = "running"
    /\ NormIdle /\ RunIdle /\ UiIdle

\* if err := writeFile(path, content); err != nil { return err }
WriteFile(fileName, nextPc) ==
    \E ok \in BOOLEAN :
        IF ok
        THEN /\ files' = files \cup {fileName}
             /\ pc' = nextPc
             /\ outcome' = IF nextPc = "exit" THEN "ok" ELSE outcome
        ELSE /\ files' = files
             /\ pc' = "exit"
             /\ outcome' = "error"

\* schemas, _ := extractSchemas(spec.Components): the error is dropped
ExtractSchemas ==
    /\ pc = "extractSchemas"
    /\ schemas' = extractSchemas(doc.components).schemas
    /\ pc' = "extractInline"
    /\ UNCHANGED <<doc, inlineSchemas, structCode, serverCode, handlerCode,
                   dbInitCode, files, outcome, normVars, runVars, uiVars>>

\* inlineSchemas := extractInlineSchemas(spec.Paths)
ExtractInlineSchemas ==
    /\ pc = "extractInline"
    /\ \E order \in Traversals(doc.paths) :
           inlineSchemas' = extractInlineSchemas(doc.paths, order)
    /\ pc' = "merge"
    /\ UNCHANGED <<doc, schemas, structCode, serverCode, handlerCode,
                   dbInitCode, files, outcome, normVars, runVars, uiVars>>

\* The merge loop.  On the nil map returned with an error the first
\* assignment panics ("assignment to entry in nil map").
Merge ==
    /\ pc = "merge"
    /\ IF schemas.isNil /\ DOMAIN inlineSchemas # {}
       THEN /\ pc' = "exit"
            /\ outcome' = "panic"
            /\ schemas' = schemas
       ELSE /\ pc' = "structs"
            /\ outcome' = outcome
            /\ schemas' = [schemas EXCEPT !.m = merge(schemas.m, inlineSchemas)]
    /\ UNCHANGED <<doc, inlineSchemas, structCode, serverCode, handlerCode,
                   dbInitCode, files, normVars, runVars, uiVars>>

\* structCode := generateStructs(schemas); write models.go
GenerateStructs ==
    /\ pc = "structs"
    /\ structCode' = generateStructs(schemas.m)
    /\ WriteFile("models.go", "server")
    /\ UNCHANGED <<doc, schemas, inlineSchemas, serverCode, handlerCode,
                   dbInitCode, normVars, runVars, uiVars>>

\* serverCode, handlerCode := generateServerAndHandlers(...); write server.go
GenerateServerAndHandlers ==
    /\ pc = "server"
    /\ \E order \in Traversals(doc.paths) :
           LET r == generateServerAndHandlers(doc.paths, order)
           IN  /\ serverCode' = r.server
               /\ handlerCode' = r.handlers
    /\ WriteFile("server.go", "handlers")
    /\ UNCHANGED <<doc, schemas, inlineSchemas, structCode, dbInitCode,
                   normVars, runVars, uiVars>>

\* write handlers.go
WriteHandlers ==
    /\ pc = "handlers"
    /\ WriteFile("handlers.go", "dbutil")
    /\ UNCHANGED <<doc, schemas, inlineSchemas, structCode, serverCode,
                   handlerCode, dbInitCode, normVars, runVars, uiVars>>

\* dbUtilCode := generateDBUtilCode(schemas); write db_util.go (fixed text)
GenerateDBUtil ==
    /\ pc = "dbutil"
    /\ WriteFile("db_util.go", "dbinit")
    /\ UNCHANGED <<doc, schemas, inlineSchemas, structCode, serverCode,
                   handlerCode, dbInitCode, normVars, runVars, uiVars>>

\* dbInitCode := generateDBInitCode(schemas); write db_init.go
GenerateDBInit ==
    /\ pc = "dbinit"
    /\ dbInitCode' = generateDBInitCode(schemas.m)
    /\ WriteFile("db_init.go", "main")
    /\ UNCHANGED <<doc, schemas, inlineSchemas, structCode, serverCode,
                   handlerCode, normVars, runVars, uiVars>>

\* write main.go (fixed text)
GenerateMain ==
    /\ pc = "main"
    /\ WriteFile("main.go", "gomod")
    /\ UNCHANGED <<doc, schemas, inlineSchemas, structCode, serverCode,
                   handlerCode, dbInitCode, normVars, runVars, uiVars>>

\* write go.mod (fixed text); return nil
GenerateGoMod ==
    /\ pc = "gomod"
    /\ WriteFile("go.mod", "exit")
    /\ UNCHANGED <<doc, schemas, inlineSchemas, structCode, serverCode,
                   handlerCode, dbInitCode, normVars, runVars, uiVars>>

Next ==
    \/ ExtractSchemas
    \/ ExtractInlineSchemas
    \/ Merge
    \/ GenerateStructs
    \/ GenerateServerAndHandlers
    \/ WriteHandlers
    \/ GenerateDBUtil
    \/ GenerateDBInit
    \/ GenerateMain
    \/ GenerateGoMod

Spec == Init /\ [][Next]_vars

-----------------------------------------------------------------------------
(* The synthesized handlers at run time *)
(* A request is handed to a handler function directly; the routing of      *)
(* server.go is not part of this section.                                  *)

\* JSON values: a kind and a token
JVal(t, v) == [t |-> t, v |-> v]
JNull == JVal("null", "null")

\* A JSON text: an object with members, or something that is no JSON object
JObject(fs) == [kind |-> "object", fields |-> fs]
NotJSON == [kind |-> "text", fields |-> <<>>]

\* Whether encoding/json stores the value in a Go field of the type
Accepts(goType, val) ==
    CASE val.t = "null"          -> TRUE
      [] goType = "string"       -> val.t = "string"
      [] goType = "int"          -> val.t = "int"
      [] goType = "float64"      -> val.t \in {"int", "float"}
      [] goType = "bool"         -> val.t = "bool"
      [] goType = "interface{}"  -> TRUE
      [] OTHER                   -> FALSE

\* The zero value of a Go type, as json.Marshal writes it
Zero(goType) ==
    CASE goType = "string"  -> JVal("string", "")
      [] goType = "int"     -> JVal("int", "0")
      [] goType = "float64" -> JVal("int", "0")
      [] goType = "bool"    -> JVal("bool", "false")
      [] OTHER              -> JNull

\* The fields (JSON key -> Go type) of the struct that models.go declares
\* under a type name
FieldsOf(decls, T) ==
    LET d == CHOOSE x \in BagToSet(decls) : x.name = T
    IN  [k \in {f.tag : f \in d.fields} |->
            (CHOOSE f \in d.fields : f.tag = k).type]

\* json decoding of a text into a struct: unknown members are skipped,
\* missing and null members leave the zero value, a member of the wrong
\* kind is an error
DecodeErr(fields, text) ==
    \/ text.kind # "object"
    \/ \E k \in DOMAIN fields \cap DOMAIN text.fields :
           ~Accepts(fields[k], text.fields[k])

\* A decode that copies every member of the text
DecodeKeepAll(fields, text) ==
    [k \in DOMAIN fields \cup DOMAIN text.fields |->
        IF k \in DOMAIN text.fields THEN text.fields[k] ELSE Zero(fields[k])]

Decode(fields, text) ==
    [k \in DOMAIN fields |->
        IF k \in DOMAIN text.fields /\ text.fields[k].t # "null"
        THEN text.fields[k]
        ELSE Zero(fields[k])]

\* An id that does not depend on the time read
ItoaFixed(n) == <<"1">>

\* fmt.Sprintf("%d", n) for n >= 0
Digits == <<"0","1","2","3","4","5","6","7","8","9">>
RECURSIVE Itoa(_)
Itoa(n) ==
    IF n < 10 THEN <<Digits[n + 1]>>
    ELSE Itoa(n \div 10) \o <<Digits[(n % 10) + 1]>>

\* An id extraction that falls back to the query parameter when the last
\* part of the path is empty
extractIdQueryFallback(req) ==
    LET pathParts == Split(req.path, "/")
    IN  IF Len(pathParts) > 2 /\ pathParts[Len(pathParts)] # <<>>
        THEN pathParts[Len(pathParts)]
        ELSE req.query

\* The id extraction synthesized for GET, PUT and DELETE
extractId(req) ==
    LET pathParts == Split(req.path, "/")
    IN  IF Len(pathParts) > 2 THEN pathParts[Len(pathParts)] ELSE req.query

\* fmt.Fprintf(w, format) with no operands, for formats in which a '%' is
\* followed by a letter, by '%', or by nothing: "%%" prints '%', a verb
\* prints "%!verb(MISSING)", a '%' at the end prints "%!(NOVERB)"
RECURSIVE Fprintf(_)
Fprintf(format) ==
    IF format = <<>> THEN <<>>
    ELSE IF Head(format) # "%"
    THEN <<Head(format)>> \o Fprintf(Tail(format))
    ELSE IF Len(format) = 1 THEN <<"%", "!", "(", "N", "O", "V", "E", "R", "B", ")">>
    ELSE IF format[2] = "%" THEN <<"%">> \o Fprintf(SubSeq(format, 3, Len(format)))
    ELSE <<"%", "!", format[2], "(", "M", "I", "S", "S", "I", "N", "G", ")">>
         \o Fprintf(SubSeq(format, 3, Len(format)))

\* The string tokens of the model that hold a '%' (at their end), and what
\* Fprintf prints for such a token and the quote that closes it
PercentTokens == {"100%"}

FprintfToken(tok) ==
    CASE tok = "100%" -> "100%!\"(MISSING)"
      [] OTHER -> tok

\* fmt.Fprintf(w, string(result)) on a stored text: a JSON object with a
\* '%' in a string member is printed with the member garbled
FprintfText(text) ==
    IF /\ text.kind = "object"
       /\ \E k \in DOMAIN text.fields :
              text.fields[k].t = "string" /\ text.fields[k].v \in PercentTokens
    THEN [kind |-> "garbled",
          fields |-> [k \in DOMAIN text.fields |->
                         IF text.fields[k].t = "string"
                         THEN JVal("string", FprintfToken(text.fields[k].v))
                         ELSE text.fields[k]]]
    ELSE text

\* The fixed parts of the confirmation messages
sSaved == <<"D","a","t","a"," ","s","a","v","e","d"," ","w","i","t","h"," ",
           "I","D",":"," ">>
sUpdated == <<"D","a","t","a"," ","u","p","d","a","t","e","d"," ","f","o","r",
             " ","I","D",":"," ">>
sDeleted == <<"D","a","t","a"," ","d","e","l","e","t","e","d"," ","f","o","r",
             " ","I","D",":"," ">>

\* A delete that removes every key of the entity
DeletePrefix(st, key) ==
    LET n == CHOOSE i \in 1..Len(key) : key[i] = ":"
    IN  [k \in {x \in DOMAIN st : SubSeq(x, 1, n) # SubSeq(key, 1, n)} |-> st[k]]

\* txn.Delete([]byte(key)): the key is gone, a missing key is no error
Delete(st, key) == [k \in DOMAIN st \ {key} |-> st[k]]

\* The state of one handler invocation
Env(st) ==
    [id |-> <<>>, result |-> NotJSON, value |-> <<>>, data |-> NotJSON,
     status |-> 0, kind |-> "", body |-> NotJSON, message |-> <<>>,
     store |-> st, dbOps |-> <<>>, wrote |-> <<>>]

Reply(env, status, kind, body) ==
    [env EXCEPT !.status = status, !.kind = kind, !.body = body]

\* fmt.Fprintf(w, "<text>" + id): the text and the id are the format
Say(env, kind, text) ==
    [Reply(env, 200, kind, NotJSON) EXCEPT !.message = Fprintf(text \o env.id)]

\* One statement group of a handler.  fault says whether the persistence
\* call of this invocation fails; now is the time read by newId.
Step(st, env, req, decls, fault, now) ==
    CASE st.op = "methodGuard" ->
            IF req.method # st.arg
            THEN Reply(env, 405, "error", NotJSON)
            ELSE env
      [] st.op = "extractId" ->
            LET id == extractId(req)
            IN  IF id = <<>>
                THEN Reply(env, 400, "error", NotJSON)
                ELSE [env EXCEPT !.id = id]
      [] st.op = "lookup" ->
            LET key == st.arg \o env.id
                e == [env EXCEPT !.dbOps = Append(@, "get")]
            IN  IF fault THEN Reply(e, 500, "error", NotJSON)
                ELSE IF key \notin DOMAIN env.store
                THEN Reply(e, 404, "error", NotJSON)
                ELSE [e EXCEPT !.result = env.store[key]]
      [] st.op = "decodeStored" ->
            IF DecodeErr(FieldsOf(decls, st.arg), env.result)
            THEN Reply(env, 500, "error", NotJSON)
            ELSE [env EXCEPT !.value = Decode(FieldsOf(decls, st.arg), env.result)]
      [] st.op = "encodeJSON" ->
            Reply(env, 200, "json", JObject(env.value))
      [] st.op = "writeRaw" ->
            Reply(env, 200, "raw", FprintfText(env.result))
      [] st.op = "decodeBody" ->
            IF DecodeErr(FieldsOf(decls, st.arg), req.body)
            THEN Reply(env, 400, "error", NotJSON)
            ELSE [env EXCEPT !.value = Decode(FieldsOf(decls, st.arg), req.body)]
      [] st.op = "newId" ->
            [env EXCEPT !.id = Itoa(now)]
      [] st.op = "marshal" ->
            [env EXCEPT !.data = JObject(env.value)]
      [] st.op = "set" ->
            LET key == st.arg \o env.id
                e == [env EXCEPT !.dbOps = Append(@, "set")]
            IN  IF fault THEN Reply(e, 500, "error", NotJSON)
                ELSE [e EXCEPT !.store = Put(env.store, key, env.data),
                               !.wrote = key]
      [] st.op = "encodeEmpty" ->
            Reply(env, 200, "json",
                  JObject([k \in DOMAIN FieldsOf(decls, st.arg) |->
                              Zero(FieldsOf(decls, st.arg)[k])]))
      [] st.op = "saySaved" ->
            Say(env, "saved", sSaved)
      [] st.op = "sayUpdated" ->
            Say(env, "updated", sUpdated)
      [] st.op = "delete" ->
            LET key == st.arg \o env.id
                e == [env EXCEPT !.dbOps = Append(@, "delete")]
            IN  IF fault THEN Reply(e, 500, "error", NotJSON)
                ELSE [e EXCEPT !.store = Delete(env.store, key)]
      [] st.op = "sayDeleted" ->
            Say(env, "deleted", sDeleted)
      [] OTHER ->      \* "unsupported"
            Reply(env, 405, "error", NotJSON)

\* The statements in order, up to the first reply; a handler that falls off
\* its end answers 200 with an empty body
RECURSIVE Run(_, _, _, _, _, _)
Run(stmts, env, req, decls, fault, now) ==
    IF env.status # 0 THEN env
    ELSE IF stmts = <<>> THEN Reply(env, 200, "empty", NotJSON)
    ELSE Run(Tail(stmts), Step(Head(stmts), env, req, decls, fault, now),
             req, decls, fault, now)

-----------------------------------------------------------------------------
(* The generated server answering requests *)

sEmail == <<"e","m","a","i","l">>
sMetadata == <<"m","e","t","a","d","a","t","a">>
pUsersId == pUsers \o <<"/","{","i","d","}">>
PATCH == <<"P","A","T","C","H">>
rawAgeString == RawSchema("object", (sAge :> "string"), TRUE)

\* Documents of a small user service: a POST on /users, a GET on
\* /users/{id} and one more operation
ServePosts ==
    {Op(pUsers, mPost, Endpoint(<<>>, SlotAbsent, NoResponses)),
     Op(pUsers, mPost, Endpoint(<<>>, SlotRef(sUser), NoResponses)),
     Op(pUsers, mPost, Endpoint(<<>>, SlotInline(rawName),
                                (s200 :> SlotRef(sUser))))}

ServeRest ==
    {{Op(pUsersId, mGet, Endpoint(<<>>, SlotAbsent, (s200 :> SlotRef(sUser)))),
      Op(pUsersId, mPut, Endpoint(<<>>, SlotRef(sUser),
                                  (s200 :> SlotRef(sUser)))),
      Op(pUsersId, mDelete, Endpoint(<<>>, SlotInline(rawNameAge),
                                     (s200 :> SlotRef(sUser))))},
     {Op(pUsersId, mGet, Endpoint(<<>>, SlotAbsent,
                                  (s200 :> SlotInline(rawAgeString)))),
      Op(pUsersId, mDelete, Endpoint(<<>>, SlotAbsent, NoResponses))},
     {Op(pUsersId, mGet, Endpoint(<<>>, SlotAbsent, NoResponses)),
      Op(pUsers, mPatch, Endpoint(<<>>, SlotInline(rawNameAge),
                                  (s200 :> SlotRef(sUser))))},
     {Op(pUsersId, mGet, Endpoint(<<>>, SlotAbsent, NoResponses)),
      Op(pUsersId, mPatch, Endpoint(sOp, SlotRef(sUser), NoResponses))}}

ServeDocuments ==
    {Document(Components("map", (sUser :> rawNameAge)), PathsOf({post} \cup rest)) :
        post \in ServePosts, rest \in ServeRest}

\* The registry of a document when generateCode runs to its end
RegistryOf(d) ==
    merge(extractSchemas(d.components).schemas.m,
          extractInlineSchemas(d.paths, CHOOSE o \in Traversals(d.paths) : TRUE))

\* SetupDB of db_init.go: one "<prefix>metadata" key per prefix
SetupDB(prefixes) ==
    [k \in {pre \o sMetadata : pre \in BagToSet(prefixes)} |-> NotJSON]

InitServe ==
    /\ doc \in ServeDocuments
    /\ pc = "serving"
    /\ schemas = GoMap(RegistryOf(doc))
    /\ inlineSchemas =
           extractInlineSchemas(doc.paths, CHOOSE o \in Traversals(doc.paths) : TRUE)
    /\ structCode = generateStructs(RegistryOf(doc))
    /\ LET r == generateServerAndHandlers(
                    doc.paths, CHOOSE o \in Traversals(doc.paths) : TRUE)
       IN  serverCode = r.server /\ handlerCode = r.handlers
    /\ dbInitCode = generateDBInitCode(RegistryOf(doc))
    /\ files = {"models.go", "server.go", "handlers.go", "db_util.go",
                "db_init.go", "main.go", "go.mod"}
    /\ outcome = "ok"
    /\ store = SetupDB(generateDBInitCode(RegistryOf(doc)))
    /\ response = [handler |-> <<>>, guard |-> <<>>, passed |-> FALSE,
                   fault |-> FALSE, id |-> <<>>,
                   status |-> 0, kind |-> "", body |-> NotJSON,
                   message |-> <<>>, dbOps |-> <<>>]
    /\ posted = <<>>
    /\ clock = 0
    /\ requests = <<>>
    /\ NormIdle /\ UiIdle

\* The requests a client sends to a handler: its own method or another one,
\* a target with or without an id, and a body
Request(m, p, q, b) == [method |-> m, path |-> p, query |-> q, body |-> b]

guardOf(h) == h.stmts[1].arg

OtherMethod(m) == IF m = GET THEN POST ELSE GET

ReqTargets ==
    {<<pUsers, <<>>>>, <<pUsers, <<"1">>>>, <<pUsers \o <<"/">>, <<"1">>>>}
    \cup {<<pUsers \o <<"/">> \o Itoa(i), <<>>>> : i \in 1..MaxClock}

\* The targets of PUT requests: without an id, with one, and with an id that
\* holds a formatting verb (the path of a request to /users/%25d)
PutTargets ==
    {<<pUsers, <<>>>>, <<pUsers \o <<"/", "1">>, <<>>>>,
     <<pUsers \o <<"/">>, <<"1">>>>,
     <<pUsers \o <<"/", "%", "d">>, <<>>>>}

NoBody == NotJSON

ReqBodies ==
    {JObject((sName :> JVal("string", "ann")) @@ (sAge :> JVal("int", "30"))
             @@ (sEmail :> JVal("string", "a@x"))),
     JObject((sAge :> JVal("string", "old")))}

\* Requests with the handler's method, and one with another method
RequestsFor(h, targets, bodies) ==
    {Request(guardOf(h), t[1], t[2], b) : t \in targets, b \in bodies}
    \cup {Request(OtherMethod(guardOf(h)), pUsers \o <<"/", "1">>, <<>>, b) :
             b \in bodies}

\* The handler h answers the request.  The time is read by POST handlers
\* only and never runs backwards.
Handle(h, req, fault, now) ==
    LET env == Run(h.stmts, Env(store), req, structCode, fault, now)
    IN  /\ store' = env.store
        /\ response' = [handler |-> h.name, guard |-> guardOf(h),
                        passed |-> (req.method = guardOf(h)),
                        fault |-> fault, id |-> env.id,
                        status |-> env.status, kind |-> env.kind,
                        body |-> env.body, message |-> env.message,
                        dbOps |-> env.dbOps]
        /\ posted' =
             LET gone == (DOMAIN store \ DOMAIN env.store)
                         \cup (IF env.wrote = <<>> THEN {} ELSE {env.wrote})
                 kept == [k \in DOMAIN posted \ gone |-> posted[k]]
             IN  IF env.wrote # <<>> /\ guardOf(h) = POST
                 THEN Put(kept, env.wrote,
                          [body |-> req.body, type |-> h.stmts[2].arg])
                 ELSE kept
        /\ clock' = now
        /\ UNCHANGED <<normVars, genVars, uiVars, requests>>

HandlersOf(M) == {h \in Range(handlerCode) : guardOf(h) = M}

HandleGET ==
    /\ pc = "serving"
    /\ \E h \in HandlersOf(GET), fault \in BOOLEAN :
         \E req \in RequestsFor(h, ReqTargets, {NoBody}) :
           Handle(h, req, fault, clock)

HandlePOST ==
    /\ pc = "serving"
    /\ \E h \in HandlersOf(POST), fault \in BOOLEAN, now \in clock..MaxClock :
         \E req \in RequestsFor(h, {<<pUsers, <<>>>>}, ReqBodies) :
           /\ now >= 1
           /\ Handle(h, req, fault, now)

HandlePUT ==
    /\ pc = "serving"
    /\ \E h \in HandlersOf(PUT), fault \in BOOLEAN :
         \E req \in RequestsFor(h, PutTargets, ReqBodies) :
           Handle(h, req, fault, clock)

HandleDELETE ==
    /\ pc = "serving"
    /\ \E h \in HandlersOf(DELETE), fault \in BOOLEAN :
         \E req \in RequestsFor(h, ReqTargets, {NoBody}) :
           Handle(h, req, fault, clock)

HandleOther ==
    /\ pc = "serving"
    /\ \E h \in Range(handlerCode) \ (HandlersOf(GET) \cup HandlersOf(POST)
                  \cup HandlersOf(PUT) \cup HandlersOf(DELETE)),
          fault \in BOOLEAN :
         \E req \in RequestsFor(h, ReqTargets, ReqBodies) :
           Handle(h, req, fault, clock)

NextServe ==
    \/ HandleGET
    \/ HandlePOST
    \/ HandlePUT
    \/ HandleDELETE
    \/ HandleOther

SpecServe == InitServe /\ [][NextServe]_vars

-----------------------------------------------------------------------------
(* Positions of a run *)

\* The merge loop has completed
Merged ==
    /\ pc \in {"structs", "server", "handlers", "dbutil", "dbinit", "main",
               "gomod", "exit"}
    /\ outcome # "panic"

\* generateServerAndHandlers has returned
Synthesized ==
    \/ pc \in {"handlers", "dbutil", "dbinit", "main", "gomod"}
    \/ pc = "exit" /\ "models.go" \in files

\* The operation a handler was synthesized for
OpsOfHandler(h) ==
    {o \in Operations(doc.paths) :
        handlerOf(o[1], o[2], doc.paths[o[1]][o[2]]) = h}

-----------------------------------------------------------------------------
(* C9 *)

\* Positions of name that toGoIdentifier keeps
Kept == {i \in 1..Len(name) : name[i] # "-" /\ name[i] # " "}
RankKept(i) == Cardinality({j \in Kept : j <= i})

\* C9: toGoIdentifier is idempotent (a second application returns the result
\* of the first); its result holds no '-' and no space; it is the input with
\* those characters removed and the first remaining character upper-cased;
\* the empty string maps to the empty string.
Thm_C9_NormalizeIdempotent ==
    /\ calls >= 2 => ident = prevIdent
    /\ calls = 1 =>
         /\ \A i \in 1..Len(ident) : ident[i] # "-" /\ ident[i] # " "
         /\ Len(ident) = Cardinality(Kept)
         /\ \A i \in Kept :
               ident[RankKept(i)] =
                   IF RankKept(i) = 1 THEN ToUpperChar(name[i]) ELSE name[i]
         /\ name = <<>> => ident = <<>>

\* A string with a leading '-' and a lower-case letter was normalized twice
Wit_C9 ==
    /\ calls = 2
    /\ Len(name) >= 2 /\ name[1] = "-" /\ name[2] = "a"
    /\ ident[1] = "A"

-----------------------------------------------------------------------------
(* C1, C2 *)

DeclaredNames ==
    IF doc.components.schemas = "map" THEN DOMAIN doc.components.m ELSE {}

\* C1: once generateCode is past its merge loop, every name declared in
\* components/schemas maps to the components definition, and every other
\* name of the registry is an inline-derived name with its inline definition.
Cex_C1_ComponentsWins ==
    pc \in {"structs", "server", "handlers", "dbutil", "dbinit", "main",
            "gomod", "exit"}
    => /\ \A n \in DeclaredNames :
            /\ ~schemas.isNil
            /\ n \in DOMAIN schemas.m
            /\ schemas.m[n] = DecodeSchema(doc.components.m[n]).schema
       /\ \A n \in DOMAIN schemas.m \ DeclaredNames :
            /\ n \in DOMAIN inlineSchemas
            /\ schemas.m[n] = inlineSchemas[n]

\* C2: when components.schemas is present but not a mapping, the run writes
\* no artifact and ends with an error returned to the caller.
Cex_C2_MalformedAborts ==
    doc.components.schemas = "other"
    => /\ files = {}
       /\ pc = "exit" => outcome = "error"

-----------------------------------------------------------------------------
(* C3 *)

TypeStmts == {"decodeStored", "decodeBody", "encodeEmpty"}

\* The placeholder type names a handler references: <handlerName>Request in
\* a body decode, <handlerName>Response200 in a response, where the slot
\* carries no reference string
Placeholders(h) ==
    {st.arg : st \in {x \in Range(h.stmts) :
        \/ /\ x.op = "decodeBody"
           /\ x.arg = h.name \o sRequest
           /\ \E o \in OpsOfHandler(h) :
                  refOf(doc.paths[o[1]][o[2]].requestBody) = <<>>
        \/ /\ x.op \in {"decodeStored", "encodeEmpty"}
           /\ x.arg = h.name \o sResponse200
           /\ \E o \in OpsOfHandler(h) :
                  refOf(successRespOf(doc.paths[o[1]][o[2]])) = <<>>}}

\* C3: every placeholder type name referenced by a synthesized handler is a
\* name of the registry built by extractInlineSchemas for the same document.
Cex_C3_PlaceholderRegistered ==
    Synthesized =>
        \A h \in Range(handlerCode) :
            Placeholders(h) \subseteq DOMAIN inlineSchemas

-----------------------------------------------------------------------------
(* C6 *)

\* The registry a run builds when extractInlineSchemas visits the operations
\* in the given order
RegistryUnder(order) ==
    merge(extractSchemas(doc.components).schemas.m,
          extractInlineSchemas(doc.paths, order))

\* C6: whatever orders the maps are traversed in, a run ends with the same
\* registry, the same struct declarations, the same set of registrations and
\* the same set of handlers.
Cex_C6_OrderIndependent ==
    Synthesized =>
        \A o1, o2 \in Traversals(doc.paths) :
            /\ RegistryUnder(o1) = schemas.m
            /\ generateStructs(RegistryUnder(o1)) = structCode
            /\ Range(generateServerAndHandlers(doc.paths, o2).server)
                   = Range(serverCode)
            /\ Range(generateServerAndHandlers(doc.paths, o2).handlers)
                   = Range(handlerCode)

-----------------------------------------------------------------------------
(* C7 *)

sColon == <<":">>
sPOSTusers == <<"P","O","S","T","u","s","e","r","s">>
sPOSTab == <<"P","O","S","T","a","b">>
sUsersPrefix == <<"U","s","e","r","s",":">>

\* Operations without operationId whose request schema is inline
DerivedInlineOps ==
    {o \in Operations(doc.paths) :
        /\ doc.paths[o[1]][o[2]].operationId = <<>>
        /\ IsInline(doc.paths[o[1]][o[2]].requestBody)}

\* uppercase(method) followed by the path without its '/' characters
IdentityOf(o) == ToUpper(o[2]) \o SelectSeq(o[1], LAMBDA c : c # "/")

\* The first segment of a path that starts with one '/'
FirstSegment(path) ==
    LET rest == Tail(path)
        cut == {i \in 1..Len(rest) : rest[i] = "/"}
    IN  IF cut = {} THEN rest
        ELSE SubSeq(rest, 1, (CHOOSE i \in cut : \A j \in cut : i <= j) - 1)

\* The declaration has one field per property of the schema
OneFieldPerProperty(d, schema) ==
    /\ Cardinality(d.fields) = Cardinality(DOMAIN schema.props)
    /\ \A q \in DOMAIN schema.props :
          \E f \in d.fields :
              /\ f.field = toGoIdentifier(q)
              /\ f.type = mapTypeToGo(schema.props[q])
              /\ f.tag = q

\* The name is derived by this operation alone and not declared in components
OwnName(o, n) ==
    /\ n \notin DeclaredNames
    /\ \A o2 \in Operations(doc.paths) \ {o} :
          handlerNameOf(o2[1], o2[2], doc.paths[o2[1]][o2[2]])
              # handlerNameOf(o[1], o[2], doc.paths[o[1]][o[2]])

-----------------------------------------------------------------------------
(* C8 *)

\* GET operations whose 200 response schema is #/components/schemas/<Name>
RefGetOps ==
    {o \in Operations(doc.paths) :
        LET r == successRespOf(doc.paths[o[1]][o[2]])
        IN  /\ ToUpper(o[2]) = GET
            /\ r.depth = 4 /\ r.refKey = "string"
            /\ Len(r.ref) >= Len(RefPrefix)
            /\ SubSeq(r.ref, 1, Len(RefPrefix)) = RefPrefix}

RefNameOf(o) ==
    LET r == successRespOf(doc.paths[o[1]][o[2]])
    IN  SubSeq(r.ref, Len(RefPrefix) + 1, Len(r.ref))

HandlersFor(o) ==
    {h \in Range(handlerCode) : o \in OpsOfHandler(h)}

\* C8 as stated: such a handler never holds the raw-passthrough write.
Cex_C8_NeverRaw ==
    Synthesized =>
        \A o \in RefGetOps : \A h \in HandlersFor(o) :
            /\ \E i \in 1..Len(h.stmts) :
                   h.stmts[i] = Stmt("decodeStored", toGoIdentifier(RefNameOf(o)))
            /\ \A i \in 1..Len(h.stmts) : h.stmts[i].op # "writeRaw"

\* C8 (amended): such a handler decodes the stored bytes into
\* normalize(<Name>), re-encodes them as JSON and holds no raw-passthrough
\* write, provided normalize(<Name>) is not empty; when it is empty (a name
\* made of '-' and spaces only) the handler holds the raw-passthrough write
\* and no decode.
Thm_C8_RefDecodes ==
    Synthesized =>
        \A o \in RefGetOps : \A h \in HandlersFor(o) :
            LET T == toGoIdentifier(RefNameOf(o))
                n == Len(h.stmts)
            IN  IF T # <<>>
                THEN /\ h.stmts[n - 1] = Stmt("decodeStored", T)
                     /\ h.stmts[n] = Stmt("encodeJSON", <<>>)
                     /\ \A i \in 1..n : h.stmts[i].op # "writeRaw"
                ELSE /\ h.stmts[n] = Stmt("writeRaw", <<>>)
                     /\ \A i \in 1..n : h.stmts[i].op # "decodeStored"

\* A GET handler for a 200 response that references User was synthesized
Wit_C8 ==
    /\ Synthesized
    /\ \E o \in RefGetOps :
           /\ RefNameOf(o) = sUser
           /\ HandlersFor(o) # {}

-----------------------------------------------------------------------------
(* The latest answer of the generated server *)

CRUD == {GET, POST, PUT, DELETE}

\* A handler has answered a request
Answered == pc = "serving" /\ response.handler # <<>>

\* The handler that gave the latest answer
Answerer == CHOOSE h \in Range(handlerCode) : h.name = response.handler

\* The key the answering handler addresses: <entityPrefix>:<id>
AnswerKey == Answerer.entity \o sColon \o response.id

\* The struct the handler decodes the stored bytes into, if it decodes
DecodesStored(h) == \E i \in 1..Len(h.stmts) : h.stmts[i].op = "decodeStored"
StoredType(h) ==
    h.stmts[CHOOSE i \in 1..Len(h.stmts) : h.stmts[i].op = "decodeStored"].arg

-----------------------------------------------------------------------------
(* C4 *)

\* A GET handler has read, decoded and answered with a value that a POST
\* handler persisted and that has not been written or deleted since
RoundTrip ==
    /\ Answered
    /\ response.guard = GET /\ response.passed
    /\ response.status = 200 /\ response.kind = "json"
    /\ AnswerKey \in DOMAIN posted

Submitted == posted[AnswerKey].body.fields

-----------------------------------------------------------------------------
(* C5 *)

\* C5: a handler synthesized for an operation whose upper-cased method is
\* not GET, POST, PUT or DELETE answers every request, of its own method or
\* another, with 405 and makes no persistence call, whatever request and
\* response schemas the operation declares.
Thm_C5_UnsupportedAlways405 ==
    Answered /\ response.guard \notin CRUD =>
        /\ response.status = 405
        /\ response.dbOps = <<>>

\* A request with the operation's own method was answered by such a handler
Wit_C5 ==
    /\ Answered
    /\ response.guard \notin CRUD
    /\ response.passed
    /\ response.status = 405

-----------------------------------------------------------------------------
(* C10 *)

\* The outcome of a GET handler for a request that passed its method guard,
\* from the store it ran on
GetOutcome(r, h, before) ==
    LET key == h.entity \o sColon \o r.id
    IN  IF r.id = <<>>
        THEN r.status = 400 /\ r.dbOps = <<>>
        ELSE /\ r.dbOps = <<"get">>
             /\ IF r.fault THEN r.status = 500
                ELSE IF key \notin DOMAIN before THEN r.status = 404
                ELSE IF DecodesStored(h)
                THEN IF DecodeErr(FieldsOf(structCode, StoredType(h)), before[key])
                     THEN r.status = 500
                     ELSE r.status = 200 /\ r.kind = "json"
                ELSE /\ r.status = 200 /\ r.kind = "raw"
                     /\ r.body = FprintfText(before[key])

\* C10: in a GET handler an empty identifier yields 400 before any lookup;
\* otherwise exactly one lookup is made, a failed lookup yields 500, a
\* missing key 404, stored bytes that do not decode into the response struct
\* 500, and anything else 200; in every outcome the store is left as it was.
Thm_C10_GetOutcomes ==
    [][ response'.guard = GET /\ response'.passed =>
            /\ store' = store
            /\ GetOutcome(response',
                          CHOOSE h \in Range(handlerCode) : h.name = response'.handler,
                          store) ]_vars

\* A GET handler found the key and could not decode what it holds
Wit_C10 ==
    /\ Answered
    /\ response.guard = GET /\ response.passed
    /\ response.id # <<>> /\ ~response.fault
    /\ AnswerKey \in DOMAIN store
    /\ response.status = 500

-----------------------------------------------------------------------------
(* extractSchemas on every shape of the components section *)

SchemaNames == {sUser, sDash, sOpRequest}

RawPool == {rawNameAge, rawArray, rawBadType, rawNone}

ComponentsInputs ==
    {Components("absent", <<>>), Components("other", <<>>)}
    \cup {Components("map", m) :
             m \in UNION {[S -> RawPool] : S \in SUBSET SchemaNames}}

InitSchemas ==
    /\ doc \in {Document(c, <<>>) : c \in ComponentsInputs}
    /\ pc = "extractSchemas"
    /\ schemas = NilMap
    /\ inlineSchemas = <<>>
    /\ structCode = EmptyBag
    /\ serverCode = <<>>
    /\ handlerCode = <<>>
    /\ dbInitCode = EmptyBag
    /\ files = {}
    /\ outcome = "running"
    /\ NormIdle /\ RunIdle /\ UiIdle

NextSchemas == ExtractSchemas

SpecSchemas == InitSchemas /\ [][NextSchemas]_vars

-----------------------------------------------------------------------------
(* C11 *)

\* extractSchemas has returned and nothing has been merged into its map yet
Extracted == pc = "extractInline"

\* Some declared schema does not decode into Schema
SomeUndecodable(c) ==
    c.schemas = "map" /\ \E n \in DOMAIN c.m : ~c.m[n].typeOK

\* C11 as stated: an error (and no registry) exactly when the schemas key
\* holds something that is not a mapping; one entry per declared name when it
\* holds a mapping.
Cex_C11_ErrorOnlyOnShape ==
    Extracted =>
        /\ schemas.isNil <=> doc.components.schemas = "other"
        /\ doc.components.schemas = "map" =>
               DOMAIN schemas.m = DOMAIN doc.components.m

\* C11 (amended): extractSchemas returns an error, and no registry, exactly
\* when the schemas key holds something that is not a mapping or holds a
\* mapping one of whose entries does not decode into a Schema; when the key
\* is absent it returns an empty registry without error; when it holds a
\* mapping whose entries all decode it returns one entry per declared name,
\* holding the declared type and properties.
Thm_C11_ExtractSchemasErrors ==
    Extracted =>
        LET c == doc.components
        IN  /\ extractSchemas(c).err <=> schemas.isNil
            /\ schemas.isNil <=> (c.schemas = "other" \/ SomeUndecodable(c))
            /\ c.schemas = "absent" => schemas = GoMap(<<>>)
            /\ (c.schemas = "map" /\ ~SomeUndecodable(c)) =>
                   /\ DOMAIN schemas.m = DOMAIN c.m
                   /\ \A n \in DOMAIN c.m :
                          schemas.m[n] = Schema(c.m[n].type, c.m[n].props)

\* A mapping with a schema that decodes and one that does not was read
Wit_C11 ==
    /\ Extracted
    /\ doc.components.schemas = "map"
    /\ \E n \in DOMAIN doc.components.m : doc.components.m[n].typeOK
    /\ SomeUndecodable(doc.components)
    /\ schemas.isNil

-----------------------------------------------------------------------------
(* extractInlineSchemas on well-formed and malformed paths trees *)

\* Operations with well-formed inline schemas
GoodInlineOps ==
    {Op(pUsers, mPost, Endpoint(<<>>, SlotInline(rawNameAge),
                                (s200 :> SlotInline(rawName)))),
     Op(pUsers, mGet, Endpoint(sOp, SlotAbsent,
                               (s200 :> SlotInline(rawId)) @@ (s404 :> SlotNoJSON))),
     Op(pAB, mPut, Endpoint(<<>>, SlotInline(rawBadType), NoResponses))}

\* Operations none of whose slots holds an inline schema: slots cut short at
\* every depth, references, and an operation that is not a mapping
OtherInlineOps ==
    {Op(pAB, mPost, Endpoint(<<>>, q, (s200 :> q))) :
        q \in {SlotAbsent, SlotNoContent, SlotNoJSON, SlotNoSchema}}
    \cup
    {Op(pAB, mGet, EndpointNotMap),
     Op(pUsers, mPut, Endpoint(<<>>, SlotRef(sUser), (s200 :> SlotRefNotString))),
     Op(pUsers, mDelete, Endpoint(sOp, SlotNoSchema, NoResponses))}

InlineOps == GoodInlineOps \cup OtherInlineOps

\* Paths trees of at most MaxOps operations, with or without a path whose
\* value is not a mapping
InlinePaths ==
    UNION {{PathsOf(O), PathsOf(O) @@ (pAdashB :> MethodsNotMap)} :
              O \in OpSets(InlineOps, MaxOps)}

InitInline ==
    /\ doc \in {Document(Components("absent", <<>>), ps) : ps \in InlinePaths}
    /\ pc = "extractInline"
    /\ schemas = GoMap(<<>>)
    /\ inlineSchemas = <<>>
    /\ structCode = EmptyBag
    /\ serverCode = <<>>
    /\ handlerCode = <<>>
    /\ dbInitCode = EmptyBag
    /\ files = {}
    /\ outcome = "running"
    /\ NormIdle /\ RunIdle /\ UiIdle

NextInline == ExtractInlineSchemas

SpecInline == InitInline /\ [][NextInline]_vars

-----------------------------------------------------------------------------
(* C12 *)

\* The schema slots of the document that hold a schema mapping without a
\* "$ref" key, each with the name it is registered under
InlineSlots ==
    UNION {LET ep == doc.paths[o[1]][o[2]]
               hn == handlerNameOf(o[1], o[2], ep)
           IN  (IF ep.requestBody.depth = 4 /\ ep.requestBody.refKey = "absent"
                THEN {[name |-> hn \o sRequest, raw |-> ep.requestBody.raw]}
                ELSE {})
               \cup {[name |-> hn \o sResponse \o st, raw |-> ep.responses[st].raw] :
                        st \in {x \in DOMAIN ep.responses :
                                   /\ ep.responses[x].depth = 4
                                   /\ ep.responses[x].refKey = "absent"}} :
           o \in Operations(doc.paths)}

\* C12: extractInlineSchemas returns for every paths tree, without an error
\* or a panic; a path that is not a mapping, an operation that is not a
\* mapping and a slot cut short at any depth register nothing; every inline
\* schema of a well-formed operation of the same document is registered
\* under its name, with the schema decoded from a slot of that name.
Thm_C12_InlineNeverFails ==
    pc = "merge" =>
        /\ outcome = "running"
        /\ DOMAIN inlineSchemas = {sl.name : sl \in InlineSlots}
        /\ \A n \in DOMAIN inlineSchemas :
               \E sl \in InlineSlots :
                   /\ sl.name = n
                   /\ inlineSchemas[n] =
                          Schema(IF sl.raw.typeOK THEN sl.raw.type ELSE "",
                                 sl.raw.props)

\* A document with a path that is not a mapping, an operation with a slot
\* that has no schema mapping and a well-formed operation was read
Wit_C12 ==
    /\ pc = "merge"
    /\ pAdashB \in DOMAIN doc.paths
    /\ \E o \in Operations(doc.paths) :
           doc.paths[o[1]][o[2]].requestBody.depth = 3
    /\ (sPOSTusers \o sRequest) \in DOMAIN inlineSchemas

-----------------------------------------------------------------------------
(* generateStructs on schemas with properties of every type *)

\* The values of a property's "type": the six of the table, the empty string
\* (no "type", or one that is not a string) and strings outside the table
PropTypes ==
    {"string", "integer", "number", "boolean", "array", "object",
     "", "null", "String", "int"}

PropNames == {sName, sAge}

StructSchemas ==
    {Schema(t, ps) :
        t \in {"object", "array", ""},
        ps \in UNION {[S -> PropTypes] : S \in SUBSET PropNames}}

\* The schemas of a second registry entry
OtherSchemas ==
    {Schema("", (sName :> "string")), Schema("object", (sId :> "integer"))}

InitStructs ==
    /\ doc = Document(Components("absent", <<>>), <<>>)
    /\ pc = "structs"
    /\ schemas \in {GoMap((sUser :> sc)) : sc \in StructSchemas}
                   \cup {GoMap((sUser :> sc) @@ (sOp :> other)) :
                            sc \in StructSchemas, other \in OtherSchemas}
    /\ inlineSchemas = <<>>
    /\ structCode = EmptyBag
    /\ serverCode = <<>>
    /\ handlerCode = <<>>
    /\ dbInitCode = EmptyBag
    /\ files = {}
    /\ outcome = "running"
    /\ NormIdle /\ RunIdle /\ UiIdle

NextStructs == GenerateStructs

SpecStructs == InitStructs /\ [][NextStructs]_vars

-----------------------------------------------------------------------------
(* C13 *)

\* The fixed table of C13
TypeTable ==
    ("string" :> "string") @@ ("integer" :> "int") @@ ("number" :> "float64")
    @@ ("boolean" :> "bool") @@ ("array" :> "[]interface{}")
    @@ ("object" :> "map[string]interface{}")

\* C13: every field that generateStructs renders carries mapTypeToGo of its
\* property's type: the table entry for string, integer, number, boolean,
\* array and object, and interface{} for every other value, the empty string
\* included.
Thm_C13_TypeTable ==
    pc # "structs" =>
        \A n \in DOMAIN schemas.m :
            \A d \in BagToSet(structCode) :
                d.name = toGoIdentifier(n) =>
                    \A f \in d.fields :
                        LET t == schemas.m[n].props[f.tag]
                        IN  f.type = IF t \in DOMAIN TypeTable
                                     THEN TypeTable[t]
                                     ELSE "interface{}"

\* A struct with a number field and a field without a type was rendered
Wit_C13 ==
    /\ pc # "structs"
    /\ \E d \in BagToSet(structCode) :
           /\ \E f \in d.fields : f.type = "float64"
           /\ \E f \in d.fields : f.type = "interface{}"
                                  /\ schemas.m[sUser].props[f.tag] = ""

-----------------------------------------------------------------------------
(* The interactive UI taking key presses and command results *)

\* The keys pressed
Keys == {keyQ, keyCtrlC, keyUp, keyDown, keyEnter, keyBackspace, keyY,
         keyUpperY, keyN, keyUpperN, keyA}

\* The keys an input screen appends to its field, and the ones typed into it
Typed(key) == key \notin {keyQ, keyCtrlC, keyEnter, keyBackspace}

TextKeys == {keyA, keyUp}

InputStates == {"input_spec", "input_output"}

Commands == {"generateCodeCmd", "cleanupGeneratedFolderCmd"}

\* What a command's function keeps of the model for its message: the file
\* named by inputSpec is read when the function runs, with any outcome
Captured(m) == [outputDir |-> m.outputDir]

InitUI ==
    /\ UiIdle
    /\ NormIdle /\ GenIdle /\ RunIdle

\* Bubble Tea hands one key press to Update, keeps the model it returns and
\* starts the command it returns; the program ends with tea.Quit
Press(key) ==
    /\ cmd # "tea.Quit"
    /\ (ui.state \in InputStates /\ Typed(key))
           => /\ key \in TextKeys
              /\ Len(ui.inputField) + Len(key) <= MaxInput
    /\ LET r == Update(ui, KeyMsg(key))
       IN  /\ r.cmd \in Commands => Len(pending) < MaxPending
           /\ ui' = r.m
           /\ cmd' = r.cmd
           /\ pending' = IF r.cmd \in Commands
                         THEN Append(pending, [cmd |-> r.cmd,
                                               m |-> Captured(r.m)])
                         ELSE pending
    /\ UNCHANGED <<normVars, genVars, runVars>>

KeyPress == \E key \in Keys : Press(key)

\* A command in flight finishes, in any order, and Bubble Tea hands its
\* message to Update
Deliver ==
    /\ cmd # "tea.Quit"
    /\ \E i \in 1..Len(pending) :
           \E msg \in Messages(pending[i]) :
               LET r == Update(ui, msg)
               IN  /\ ui' = r.m
                   /\ cmd' = r.cmd
                   /\ pending' = SubSeq(pending, 1, i - 1)
                                     \o SubSeq(pending, i + 1, Len(pending))
    /\ UNCHANGED <<normVars, genVars, runVars>>

NextUI == KeyPress \/ Deliver

SpecUI == InitUI /\ [][NextUI]_vars

-----------------------------------------------------------------------------
(* C14 *)

States == {"menu", "input_spec", "input_output", "confirm_cleanup", "result"}

\* C14: in every state of the UI a "q" or "ctrl+c" key press makes Update
\* return the quit command and changes no field of the model.
Thm_C14_QuitKeys ==
    [][\A key \in {keyQ, keyCtrlC} :
           Press(key) => /\ ui.state \in States
                         /\ cmd' = "tea.Quit"
                         /\ ui' = ui]_vars

\* The program was quit from the result screen, where only the two keys quit,
\* while a command was still in flight
Wit_C14 ==
    /\ cmd = "tea.Quit"
    /\ ui.state = "result"
    /\ pending # <<>>

-----------------------------------------------------------------------------
(* C15 *)

YesKeys == {keyY, keyUpperY}

NoKeys == {keyN, keyUpperN}

Confirming == ui.state = "confirm_cleanup"

\* C15: the cleanup command is issued only by a "y" or "Y" key press in state
\* confirm_cleanup; that state is entered only by Enter on the menu entry
\* "Clean Up Generated Folder"; there an "n" or "N" key press returns to the
\* menu without issuing the command, and any other key leaves the model as it
\* is and issues no cleanup.
Thm_C15_CleanupOnlyOnYes ==
    [][/\ cmd' = "cleanupGeneratedFolderCmd"
              => Confirming /\ \E key \in YesKeys : Press(key)
       /\ \A key \in YesKeys :
              Confirming /\ Press(key)
                  => /\ cmd' = "cleanupGeneratedFolderCmd"
                     /\ pending' = Append(pending,
                                          [cmd |-> cmd', m |-> Captured(ui)])
       /\ (ui'.state = "confirm_cleanup" /\ ~Confirming)
              => /\ ui.state = "menu"
                 /\ ui.choices[ui.cursor + 1] = "Clean Up Generated Folder"
                 /\ Press(keyEnter)
       /\ \A key \in NoKeys :
              Confirming /\ Press(key)
                  => /\ ui'.state = "menu"
                     /\ cmd' = "nil"
                     /\ pending' = pending
       /\ \A key \in Keys \ (YesKeys \cup NoKeys) :
              Confirming /\ Press(key)
                  => /\ ui' = ui
                     /\ cmd' # "cleanupGeneratedFolderCmd"
                     /\ pending' = pending]_vars

\* The cleanup command was issued from the confirmation screen and is in
\* flight
Wit_C15 ==
    /\ cmd = "cleanupGeneratedFolderCmd"
    /\ ui.state = "result"
    /\ ui.selectedChoice = "Clean Up Generated Folder"
    /\ \E i \in 1..Len(pending) : pending[i].cmd = "cleanupGeneratedFolderCmd"

-----------------------------------------------------------------------------
(* C16 *)

\* The endpoint a handler was synthesized from
EndpointOf(h) ==
    LET m == CHOOSE x \in DOMAIN doc.paths[h.path] : ToUpper(x) = guardOf(h)
    IN  doc.paths[h.path][m]

\* The struct the claim names for the request body
RequestTypeOf(h) ==
    LET req == EndpointOf(h).requestBody
    IN  IF req.depth = 4 /\ req.refKey = "string"
        THEN toGoIdentifier(TrimPrefix(req.ref, RefPrefix))
        ELSE h.name \o sRequest

\* What the claim says of a POST request that passed the method guard
PostOutcome(h, req, fault, now) ==
    LET T == RequestTypeOf(h)
        key == h.entity \o sColon \o Itoa(now)
    IN  /\ Len(h.stmts) >= 2
        /\ h.stmts[2] = Stmt("decodeBody", T)
        /\ IF DecodeErr(FieldsOf(structCode, T), req.body)
           THEN /\ response'.status = 400
                /\ response'.dbOps = <<>>
                /\ store' = store
           ELSE /\ response'.dbOps = <<"set">>
                /\ IF fault
                   THEN response'.status = 500 /\ store' = store
                   ELSE /\ response'.status = 200
                        /\ store' = Put(store, key,
                                        JObject(Decode(FieldsOf(structCode, T),
                                                       req.body)))

\* C16: for every POST operation the handler, on a POST request, decodes the
\* body into the referenced struct or <handlerName>Request, answers 400
\* without writing when decoding fails, and otherwise writes the
\* re-serialized body under <entityPrefix>:<id> before responding, answering
\* 500 when the write fails.
Cex_C16_PostDecodesAndWrites ==
    [][\A h \in HandlersOf(POST), fault \in BOOLEAN, now \in 1..MaxClock :
           \A req \in RequestsFor(h, {<<pUsers, <<>>>>}, ReqBodies) :
               (req.method = POST /\ Handle(h, req, fault, now))
                   => PostOutcome(h, req, fault, now)]_vars

-----------------------------------------------------------------------------
(* generateCode on POST operations with every shape of the 200 response *)

PostRequestShapes == {SlotRef(sUser), SlotInline(rawName)}

PostResponseShapes ==
    {NoResponses, (s200 :> SlotNoContent), (s200 :> SlotNoJSON),
     (s200 :> SlotNoSchema), (s200 :> SlotInline(rawName)),
     (s200 :> SlotRef(sUser)), (s200 :> SlotRef(sDash)),
     (s200 :> SlotRefNotString)}

PostDocuments ==
    {Document(Components("map", (sUser :> rawNameAge)),
              PathsOf({Op(pUsers, mPost, Endpoint(<<>>, q, r))})) :
        q \in PostRequestShapes, r \in PostResponseShapes}

InitPost ==
    /\ doc \in PostDocuments
    /\ pc = "extractSchemas"
    /\ schemas = NilMap
    /\ inlineSchemas = <<>>
    /\ structCode = EmptyBag
    /\ serverCode = <<>>
    /\ handlerCode = <<>>
    /\ dbInitCode = EmptyBag
    /\ files = {}
    /\ outcome = "running"
    /\ NormIdle /\ RunIdle /\ UiIdle

SpecPost == InitPost /\ [][Next]_vars

-----------------------------------------------------------------------------
(* C17 *)

\* The 200 response of the operation declares JSON content
DeclaresJSON(h) == successRespOf(EndpointOf(h)).depth >= 3

\* The struct the claim names for the 200 response
ResponseTypeOf(h) ==
    LET resp == successRespOf(EndpointOf(h))
    IN  IF resp.depth = 4 /\ resp.refKey = "string"
        THEN toGoIdentifier(TrimPrefix(resp.ref, RefPrefix))
        ELSE h.name \o sResponse200

\* What a handler does after its write
AfterWrite(h) ==
    LET i == CHOOSE j \in 1..Len(h.stmts) : h.stmts[j].op = "set"
    IN  SubSeq(h.stmts, i + 1, Len(h.stmts))

\* C17: after a successful write a POST handler responds with an empty
\* instance of the 200-response struct, named by the reference or by
\* <handlerName>Response200, when the 200 response declares JSON content, and
\* with the plain message holding the generated id otherwise.
Cex_C17_StructIffJSONContent ==
    \A h \in Range(handlerCode) :
        (guardOf(h) = POST /\ \E j \in 1..Len(h.stmts) : h.stmts[j].op = "set")
            => AfterWrite(h) = IF DeclaresJSON(h)
                               THEN <<Stmt("encodeEmpty", ResponseTypeOf(h))>>
                               ELSE <<Stmt("saySaved", <<>>)>>

-----------------------------------------------------------------------------
(* C18 *)

\* sub occurs in s
Contains(s, sub) ==
    \E i \in 0..(Len(s) - Len(sub)) : SubSeq(s, i + 1, i + Len(sub)) = sub

\* What the claim says of a PUT request with an id and a decodable body whose
\* write succeeds
PutOutcome(h, req) ==
    LET fields == FieldsOf(structCode, RequestTypeOf(h))
        id == extractId(req)
    IN  (id # <<>> /\ ~DecodeErr(fields, req.body))
            => /\ store' = Put(store, h.entity \o sColon \o id,
                               JObject(Decode(fields, req.body)))
               /\ response'.status = 200
               /\ response'.kind = "updated"
               /\ Contains(response'.message, id)

\* C18: for every PUT operation a request with a non-empty id and a
\* decodable body overwrites the value under <entityPrefix>:<id> and is
\* answered with a plain confirmation message containing the id, never with
\* a JSON-encoded response struct.
Cex_C18_PutConfirmsWithId ==
    [][\A h \in HandlersOf(PUT) :
           \A req \in RequestsFor(h, PutTargets, ReqBodies) :
               (req.method = PUT /\ Handle(h, req, FALSE, clock))
                   => PutOutcome(h, req)]_vars

-----------------------------------------------------------------------------
(* C19 *)

\* What a DELETE handler does with a request that passed its method guard
DeleteOutcome(h, req, fault) ==
    LET id == extractId(req)
        key == h.entity \o sColon \o id
    IN  IF id = <<>>
        THEN /\ response'.status = 400
             /\ response'.dbOps = <<>>
             /\ store' = store
        ELSE /\ response'.dbOps = <<"delete">>
             /\ IF fault
                THEN response'.status = 500 /\ store' = store
                ELSE /\ response'.status = 200
                     /\ response'.kind = "deleted"
                     /\ response'.message = Fprintf(sDeleted \o id)
                     /\ DOMAIN store' = DOMAIN store \ {key}
                     /\ \A k \in DOMAIN store' : store'[k] = store[k]

\* C19: for every DELETE operation, whatever schemas it declares, a request
\* with a non-empty id issues one delete of exactly <entityPrefix>:<id>,
\* answers 500 when it fails and a plain confirmation otherwise, and changes
\* no other key; an empty id is answered 400 with the store unchanged.
Thm_C19_DeleteExactlyOneKey ==
    [][(response'.guard = DELETE /\ response'.passed) =>
           \A h \in HandlersOf(DELETE), fault \in BOOLEAN :
               \A req \in RequestsFor(h, ReqTargets, {NoBody}) :
                   (req.method = DELETE /\ Handle(h, req, fault, clock))
                       => DeleteOutcome(h, req, fault)]_vars

\* A DELETE handler removed its key and another key of the entity is still
\* stored
Wit_C19 ==
    /\ Answered
    /\ response.guard = DELETE /\ response.passed
    /\ response.kind = "deleted"
    /\ AnswerKey \notin DOMAIN store
    /\ \E k \in DOMAIN store :
           /\ k # AnswerKey
           /\ SubSeq(k, 1, Len(Answerer.entity) + 1) = Answerer.entity \o sColon

-----------------------------------------------------------------------------
(* GET handlers reading what POST handlers have stored *)

\* The struct the POST handler of a document decodes into (empty when it
\* decodes nothing)
PostTypeOf(d) ==
    LET r == generateServerAndHandlers(d.paths,
                                       CHOOSE o \in Traversals(d.paths) : TRUE)
        h == CHOOSE x \in Range(r.handlers) : guardOf(x) = POST
    IN  IF Len(h.stmts) >= 2 THEN h.stmts[2].arg ELSE <<>>

StoringDocuments == {d \in ServeDocuments : PostTypeOf(d) # <<>>}

\* Bodies submitted to the POST handler before: a name with and without '%'
StoredBodies ==
    {JObject((sName :> JVal("string", "ann")) @@ (sAge :> JVal("int", "30"))),
     JObject((sName :> JVal("string", "100%")))}

\* json.Marshal(reqBody) of those bodies, as the POST handler writes it
StoredValues(d) ==
    {JObject(Decode(FieldsOf(generateStructs(RegistryOf(d)), PostTypeOf(d)), b)) :
        b \in StoredBodies}

\* The keys the POST handler wrote at times 1..MaxClock
StoredKeys(d) ==
    LET r == generateServerAndHandlers(d.paths,
                                       CHOOSE o \in Traversals(d.paths) : TRUE)
        h == CHOOSE x \in Range(r.handlers) : guardOf(x) = POST
    IN  {h.entity \o sColon \o Itoa(i) : i \in 1..MaxClock}

\* The stores left by those POST requests
Stores(d) ==
    UNION {{f @@ SetupDB(generateDBInitCode(RegistryOf(d))) :
               f \in [K -> StoredValues(d)]} : K \in SUBSET StoredKeys(d)}

InitStored ==
    /\ doc \in StoringDocuments
    /\ pc = "serving"
    /\ schemas = GoMap(RegistryOf(doc))
    /\ inlineSchemas =
           extractInlineSchemas(doc.paths, CHOOSE o \in Traversals(doc.paths) : TRUE)
    /\ structCode = generateStructs(RegistryOf(doc))
    /\ LET r == generateServerAndHandlers(
                    doc.paths, CHOOSE o \in Traversals(doc.paths) : TRUE)
       IN  serverCode = r.server /\ handlerCode = r.handlers
    /\ dbInitCode = generateDBInitCode(RegistryOf(doc))
    /\ files = {"models.go", "server.go", "handlers.go", "db_util.go",
                "db_init.go", "main.go", "go.mod"}
    /\ outcome = "ok"
    /\ store \in Stores(doc)
    /\ response = [handler |-> <<>>, guard |-> <<>>, passed |-> FALSE,
                   fault |-> FALSE, id |-> <<>>,
                   status |-> 0, kind |-> "", body |-> NotJSON,
                   message |-> <<>>, dbOps |-> <<>>]
    /\ posted = <<>>
    /\ clock = MaxClock
    /\ requests = <<>>
    /\ NormIdle /\ UiIdle

NextStored == HandleGET

SpecStored == InitStored /\ [][NextStored]_vars

-----------------------------------------------------------------------------
(* C20 *)

\* The handler writes the stored bytes through
IsRaw(h) == \E i \in 1..Len(h.stmts) : h.stmts[i].op = "writeRaw"

\* C20: a GET handler without a resolvable response struct answers a
\* successful lookup with exactly the stored bytes, for every stored value,
\* and the raw branch is the one synthesized exactly when the 200 response
\* declares no JSON content.
Cex_C20_RawBytesUnchanged ==
    /\ \A h \in HandlersOf(GET) : IsRaw(h) <=> ~DeclaresJSON(h)
    /\ (/\ Answered
        /\ response.guard = GET /\ response.passed
        /\ IsRaw(Answerer)
        /\ response.status = 200)
           => response.body = store[AnswerKey]

-----------------------------------------------------------------------------
(* C21 *)

\* The identifier rule as stated: the last part of a path of more than two
\* parts, else the query parameter
IdRule(req) ==
    LET parts == Split(req.path, "/")
    IN  IF Len(parts) > 2 THEN parts[Len(parts)] ELSE req.query

IdMethods == {GET, PUT, DELETE}

\* The requests sent to a handler of one of the three methods
IdRequests(h) ==
    IF guardOf(h) = PUT
    THEN RequestsFor(h, PutTargets, ReqBodies)
    ELSE RequestsFor(h, ReqTargets, {NoBody})

\* C21: GET, PUT and DELETE handlers take the identifier from the last part
\* of a path of more than two parts, never from the query then (a path
\* ending in '/' is answered 400 even with ?id= supplied), and from the
\* query parameter id otherwise; an empty identifier is answered 400.
Thm_C21_OneIdentifierRule ==
    [][(response'.guard \in IdMethods /\ response'.passed) =>
           \A h \in {x \in Range(handlerCode) : x.name = response'.handler} :
               \A req \in IdRequests(h) :
                   (/\ req.method = guardOf(h)
                    /\ Handle(h, req, response'.fault, clock))
                       => IF IdRule(req) = <<>>
                          THEN /\ response'.status = 400
                               /\ response'.dbOps = <<>>
                               /\ store' = store
                          ELSE response'.id = IdRule(req)]_vars

\* A PUT handler answered 400 before decoding or writing anything
Wit_C21 ==
    /\ Answered
    /\ response.guard = PUT /\ response.passed
    /\ response.id = <<>>
    /\ response.status = 400
    /\ response.dbOps = <<>>

-----------------------------------------------------------------------------
(* Concurrent POST requests.  net/http serves every request on a goroutine
   of its own; a POST handler touches shared state twice: when it reads the
   time and when DB.Update commits its transaction. *)

\* The statements in order up to the first reply, without the answer of a
\* handler that falls off its end
RECURSIVE Exec(_, _, _, _, _, _)
Exec(stmts, env, req, decls, fault, now) ==
    IF env.status # 0 \/ stmts = <<>> THEN env
    ELSE Exec(Tail(stmts), Step(Head(stmts), env, req, decls, fault, now),
              req, decls, fault, now)

\* The position of the DB.Update call in a handler, 0 when it has none
UpdateAt(stmts) ==
    IF \E i \in DOMAIN stmts : stmts[i].op = "set"
    THEN CHOOSE i \in DOMAIN stmts :
             /\ stmts[i].op = "set"
             /\ \A j \in 1..(i - 1) : stmts[j].op # "set"
    ELSE 0

HandlerNamed(n) == CHOOSE h \in Range(handlerCode) : h.name = n

\* The documents of the user service with each of its POST operations, and a
\* document with POST operations on two entities
ConcurrentDocuments ==
    {Document(Components("map", (sUser :> rawNameAge)),
              PathsOf({post, Op(pUsersId, mGet,
                                Endpoint(<<>>, SlotAbsent, NoResponses))})) :
        post \in ServePosts}
    \cup {Document(Components("map", (sUser :> rawNameAge)),
                   PathsOf({Op(pUsers, mPost,
                               Endpoint(<<>>, SlotInline(rawName), NoResponses)),
                            Op(pAB, mPost,
                               Endpoint(<<>>, SlotInline(rawName), NoResponses)),
                            Op(pUsersId, mGet,
                               Endpoint(<<>>, SlotAbsent, NoResponses))}))}

InitConcurrent ==
    /\ doc \in ConcurrentDocuments
    /\ pc = "serving"
    /\ schemas = GoMap(RegistryOf(doc))
    /\ inlineSchemas =
           extractInlineSchemas(doc.paths, CHOOSE o \in Traversals(doc.paths) : TRUE)
    /\ structCode = generateStructs(RegistryOf(doc))
    /\ LET r == generateServerAndHandlers(
                    doc.paths, CHOOSE o \in Traversals(doc.paths) : TRUE)
       IN  serverCode = r.server /\ handlerCode = r.handlers
    /\ dbInitCode = generateDBInitCode(RegistryOf(doc))
    /\ files = {"models.go", "server.go", "handlers.go", "db_util.go",
                "db_init.go", "main.go", "go.mod"}
    /\ outcome = "ok"
    /\ store = SetupDB(generateDBInitCode(RegistryOf(doc)))
    /\ response = [handler |-> <<>>, guard |-> <<>>, passed |-> FALSE,
                   fault |-> FALSE, id |-> <<>>,
                   status |-> 0, kind |-> "", body |-> NotJSON,
                   message |-> <<>>, dbOps |-> <<>>]
    /\ posted = <<>>
    /\ clock = 0
    /\ requests = <<>>
    /\ NormIdle /\ UiIdle

\* A POST handler starts: it runs up to its DB.Update call, reading the time
\* on the way; a handler that replies before, or has no such call, is done.
\* The answer to each request is kept with the request.
PostArrive ==
    /\ pc = "serving"
    /\ Len(requests) < MaxPosts
    /\ \E h \in HandlersOf(POST), now \in clock..MaxClock :
         \E req \in {Request(POST, pUsers, <<>>, b) : b \in ReqBodies} :
           LET at == UpdateAt(h.stmts)
               env == IF at = 0
                      THEN Run(h.stmts, Env(<<>>), req, structCode, FALSE, now)
                      ELSE Exec(SubSeq(h.stmts, 1, at - 1), Env(<<>>), req,
                                structCode, FALSE, now)
           IN  /\ now >= 1
               /\ requests' = Append(requests,
                                     [handler |-> h.name, req |-> req,
                                      now |-> now, env |-> env])
               /\ clock' = now
    /\ UNCHANGED <<normVars, genVars, uiVars, store, response, posted>>

\* The DB.Update call of one of the handlers in flight commits or fails, and
\* the handler runs to its reply
PostCommit ==
    /\ pc = "serving"
    /\ \E i \in DOMAIN requests, fault \in BOOLEAN :
         LET e == requests[i]
             h == HandlerNamed(e.handler)
             env == Run(SubSeq(h.stmts, UpdateAt(h.stmts), Len(h.stmts)),
                        [e.env EXCEPT !.store = store], e.req, structCode,
                        fault, e.now)
         IN  /\ e.env.status = 0
             /\ store' = env.store
             /\ requests' = [requests EXCEPT
                               ![i] = [e EXCEPT !.env = [env EXCEPT !.store = <<>>]]]
    /\ UNCHANGED <<normVars, genVars, uiVars, clock, response, posted>>

NextConcurrent == PostArrive \/ PostCommit

SpecConcurrent == InitConcurrent /\ [][NextConcurrent]_vars

\* The POST requests answered as successes after reading the time
Saved == {i \in DOMAIN requests :
             requests[i].env.status = 200 /\ requests[i].env.id # <<>>}

PrefixOf(i) ==
    LET h == HandlerNamed(requests[i].handler)
    IN  h.stmts[UpdateAt(h.stmts)].arg

\* The record a POST submits: the body as its request struct re-serializes it
RecordOf(i) ==
    LET h == HandlerNamed(requests[i].handler)
    IN  JObject(Decode(FieldsOf(structCode, h.stmts[2].arg), requests[i].req.body))

SameStamp(i, j) ==
    PrefixOf(i) = PrefixOf(j) /\ requests[i].now = requests[j].now

\* C22: a successful POST whose time no other successful POST of its prefix
\* read has its record stored under a key of its own; successful POSTs of one
\* prefix that read the same time have one key, which holds the record of
\* one of them.
Thm_C22_PostKeysByTimestamp ==
    \A i \in Saved :
        LET key == PrefixOf(i) \o Itoa(requests[i].now)
        IN  /\ requests[i].env.wrote = key
            /\ key \in DOMAIN store
            /\ store[key] \in {RecordOf(j) : j \in {k \in Saved : SameStamp(i, k)}}
            /\ \A j \in Saved \ {i} :
                   IF SameStamp(i, j)
                   THEN requests[j].env.wrote = key
                   ELSE requests[j].env.wrote # key

Wit_C22 ==
    \E i, j, k \in Saved :
        /\ i # j /\ SameStamp(i, j)
        /\ RecordOf(i) # RecordOf(j)
        /\ store[requests[i].env.wrote] = RecordOf(j)
        /\ PrefixOf(k) = PrefixOf(i) /\ ~SameStamp(i, k)
        /\ store[requests[k].env.wrote] = RecordOf(k)

-----------------------------------------------------------------------------
(* C23 *)

\* The declarations rendered for the registry entry n
DeclsOf(n) == {d \in BagToSet(structCode) : d.name = toGoIdentifier(n)}

\* C23: generateStructs renders one declaration per registry entry, named
\* toGoIdentifier of the entry's name; for a schema of type "object" the
\* declaration has one field per property, named toGoIdentifier of the key,
\* typed mapTypeToGo of the property's type and tagged with the key; for a
\* schema of another type or none it has no field.
Thm_C23_OneStructPerEntry ==
    pc # "structs" =>
        /\ BagCardinality(structCode) = Cardinality(DOMAIN schemas.m)
        /\ \A n \in DOMAIN schemas.m :
               LET props == schemas.m[n].props
               IN  /\ Cardinality(DeclsOf(n)) = 1
                   /\ \A d \in DeclsOf(n) :
                          IF schemas.m[n].type = "object"
                          THEN /\ Cardinality(d.fields) = Cardinality(DOMAIN props)
                               /\ \A p \in DOMAIN props :
                                      \E f \in d.fields :
                                          /\ f.tag = p
                                          /\ f.field = toGoIdentifier(p)
                                          /\ f.type = mapTypeToGo(props[p])
                          ELSE d.fields = {}

\* Two entries were rendered: an object schema with two fields, and a schema
\* without a type that carries a property, as an empty struct
Wit_C23 ==
    /\ pc # "structs"
    /\ BagCardinality(structCode) = 2
    /\ schemas.m[sUser].type = "object"
    /\ \E d \in DeclsOf(sUser) : Cardinality(d.fields) = 2
    /\ schemas.m[sOp].type = "" /\ DOMAIN schemas.m[sOp].props # {}
    /\ \E d \in DeclsOf(sOp) : d.fields = {}

-----------------------------------------------------------------------------
(* generateCode on documents whose schema names differ only in what
   toGoIdentifier and strings.ToLower remove *)

sLowerUser == <<"u","s","e","r">>
sUserDash == <<"U","s","-","e","r">>
sPostUsersRequest == <<"p","O","S","T","u","s","e","r","s","R","e","q","u","e","s","t">>

NamePool == {sUser, sLowerUser, sUserDash, sPostUsersRequest, sOp}

NameDocuments ==
    {Document(Components("map", [n \in N |-> rawNameAge]),
              PathsOf({Op(pUsers, mPost, Endpoint(<<>>, q, NoResponses))})) :
        N \in SUBSET NamePool \ {{}}, q \in {SlotRef(sUser), SlotInline(rawName)}}

InitNames ==
    /\ doc \in NameDocuments
    /\ pc = "extractSchemas"
    /\ schemas = NilMap
    /\ inlineSchemas = <<>>
    /\ structCode = EmptyBag
    /\ serverCode = <<>>
    /\ handlerCode = <<>>
    /\ dbInitCode = EmptyBag
    /\ files = {}
    /\ outcome = "running"
    /\ NormIdle /\ RunIdle /\ UiIdle

SpecNames == InitNames /\ [][Next]_vars

-----------------------------------------------------------------------------
(* C24 *)

\* C24: once db_init.go is written, the manifest lists one prefix per entry
\* of the merged registry, the lower-cased name followed by ':', and nothing
\* else, and the prefixes of distinct names are distinct.
Cex_C24_OnePrefixPerSchema ==
    "db_init.go" \in files =>
        /\ BagCardinality(dbInitCode) = Cardinality(DOMAIN schemas.m)
        /\ \A n \in DOMAIN schemas.m :
               CopiesIn(ToLower(n) \o <<":">>, dbInitCode) = 1

\* The part of C24 that holds: one line per entry, each the lower-cased name
\* followed by ':'
ManifestLines ==
    "db_init.go" \in files =>
        /\ BagCardinality(dbInitCode) = Cardinality(DOMAIN schemas.m)
        /\ \A n \in DOMAIN schemas.m :
               CopiesIn(ToLower(n) \o <<":">>, dbInitCode) >= 1
        /\ \A x \in BagToSet(dbInitCode) :
               \E n \in DOMAIN schemas.m : x = ToLower(n) \o <<":">>

-----------------------------------------------------------------------------
(* C25 *)

\* C25: no two registration lines of server.go carry the same path pattern.
Cex_C25_PatternsRegisteredOnce ==
    Synthesized =>
        \A i, j \in DOMAIN serverCode :
            i # j => serverCode[i].pattern # serverCode[j].pattern

\* What the code registers: one line per (path, method), with the path as
\* the pattern
RegistrationPerOperation ==
    Synthesized =>
        /\ Len(serverCode) = Cardinality(Operations(doc.paths))
        /\ \A o \in Operations(doc.paths) :
               \E i \in DOMAIN serverCode :
                   /\ serverCode[i].pattern = o[1]
                   /\ serverCode[i].handler =
                          handlerNameOf(o[1], o[2], doc.paths[o[1]][o[2]])

-----------------------------------------------------------------------------
(* C26 *)

\* C26: two distinct (path, method) pairs of a document never yield the same
\* handler function name.
Cex_C26_HandlerNamesUnique ==
    Synthesized =>
        \A o1, o2 \in Operations(doc.paths) :
            o1 # o2 =>
                handlerNameOf(o1[1], o1[2], doc.paths[o1[1]][o1[2]])
                    # handlerNameOf(o2[1], o2[2], doc.paths[o2[1]][o2[2]])

-----------------------------------------------------------------------------
(* C27 *)

\* How many declarations of models.go carry the type name T
DeclaredTimes(T) ==
    BagCardinality([d \in {x \in BagToSet(structCode) : x.name = T} |->
                       CopiesIn(d, structCode)])

\* C27: the struct type names declared in models.go are pairwise distinct:
\* distinct names of the merged registry never normalize to the same type
\* name.
Cex_C27_DeclaredNamesDistinct ==
    "models.go" \in files =>
        /\ \A n1, n2 \in DOMAIN schemas.m :
               n1 # n2 => toGoIdentifier(n1) # toGoIdentifier(n2)
        /\ \A d \in BagToSet(structCode) : DeclaredTimes(d.name) = 1

-----------------------------------------------------------------------------
(* C28 *)

\* The type names a handler obtains from a reference: toGoIdentifier of the
\* reference without its prefix, in a body decode or in a response
RefNames(h) ==
    {st.arg : st \in {x \in Range(h.stmts) :
        \/ /\ x.op = "decodeBody"
           /\ \E o \in OpsOfHandler(h) :
                  LET ref == refOf(doc.paths[o[1]][o[2]].requestBody)
                  IN  /\ ref # <<>>
                      /\ x.arg = toGoIdentifier(TrimPrefix(ref, RefPrefix))
        \/ /\ x.op \in {"decodeStored", "encodeEmpty"}
           /\ \E o \in OpsOfHandler(h) :
                  LET ref == refOf(successRespOf(doc.paths[o[1]][o[2]]))
                  IN  /\ ref # <<>>
                      /\ x.arg = toGoIdentifier(TrimPrefix(ref, RefPrefix))}}

\* C28: every type name a synthesized handler obtains from a reference is
\* declared in models.go of the same run.
Cex_C28_ReferencedTypesDeclared ==
    Synthesized =>
        \A h \in Range(handlerCode) :
            \A T \in RefNames(h) :
                \E d \in BagToSet(structCode) : d.name = T

-----------------------------------------------------------------------------
(* C29 *)

\* The result screen shows the message of an operation that returned no
\* error: only such a message carries a text
ShowsSuccess == ui.state = "result" /\ ui.resultMsg # NoText

\* C29: when the result screen holds the outcome of an operation that
\* returned no error, errorMsg is empty.
Cex_C29_NoStaleError ==
    ShowsSuccess => ui.errorMsg = ""

-----------------------------------------------------------------------------
(* C30 *)

\* C30: when the result message of a command in flight reaches Update, it
\* is recorded in the model: resultMsg takes its message and, when it
\* carries an error, errorMsg takes the error text.
Cex_C30_ResultRecorded ==
    [][Len(pending') < Len(pending) =>
           \E i \in DOMAIN pending : \E msg \in Messages(pending[i]) :
               /\ ui'.resultMsg = msg.message
               /\ msg.err # "nil" => ui'.errorMsg = ErrorText(msg.err)]_vars

====
